---- MODULE Spec2Model ----
(***************************************************************************)
(* Model of the MCP server core of axum-mcp: the JSON-RPC dispatcher       *)
(* (McpServer::handle_request and its helpers) and the batch engine        *)
(* (handle_batch_request, execute_batch_parallel, execute_batch_sequential)*)
(* of src/src/server/service.rs.                                           *)
(***************************************************************************)
EXTENDS Integers, Sequences, FiniteSets, TLC

\* ------------------------------------------------------------------ bounds

\* Largest config.max_batch_size the model configures a server with; batches
\* of up to MaxBatchSize + 1 sub-requests are submitted.
MaxBatchSize == 2

\* Largest max_parallel a batch asks for.
MaxParallel == 2

\* Largest number of pieces a template text is put together from.
MaxPieces == 3

\* Largest number of add_resource calls an in-memory registry receives.
MaxAdditions == 3

\* Number of tasks that call the connection counter concurrently.
MaxTasks == 2

\* Largest number of calls those tasks start altogether.
MaxCalls == 4

\* ------------------------------------------------------------- data types

\* Option::None / an absent JSON member.
NoValue == [type |-> "absent"]

\* JsonRpcRequest.id == None (a notification).
NoId == "<absent>"

RequestIds == {NoId, "1"}

\* The StandardMethod enum, by wire string.
StandardMethods ==
    {"initialize", "initialized", "notifications/initialized", "ping",
     "tools/list", "tools/call", "resources/list", "resources/read",
     "prompts/list", "prompts/get", "batch"}

CustomMethods == {"custom/echo"}

Methods == StandardMethods \cup CustomMethods

\* StandardMethod::requires_initialization.
requires_initialization(method) ==
    method \notin {"initialize", "initialized", "notifications/initialized", "ping"}

\* SecurityContext: the authenticated flag, the system flag, the capability
\* set and client.metadata["stop_on_error"] ("<absent>" when the key is unset).
AllSecurityContexts ==
    [authenticated : BOOLEAN,
     system : BOOLEAN,
     capabilities : SUBSET {"initialized"},
     stop_on_error : {"<absent>", "true", "yes"}]

\* The contexts the model connects with: every combination of the three
\* authorization attributes, and the system context with each stop_on_error.
SecurityContexts ==
    {c \in AllSecurityContexts :
        c.stop_on_error # "<absent>" =>
            (c.system /\ ~c.authenticated /\ c.capabilities = {})}

is_authenticated(ctx) == ctx.authenticated

is_system(ctx) == ctx.system

has_capability(ctx, cap) == cap \in ctx.capabilities

\* McpError values.
McpError(kind, message) == [kind |-> kind, message |-> message]

NotInitializedMessage == "Client must call initialize first"

BatchDisabledMessage == "Batch operations are not enabled"

NestedBatchMessage == "Nested batch requests are not allowed"

\* impl From<McpError> for JsonRpcError: the code of each error kind.
ErrorCode(err) ==
    CASE err.kind = "Protocol" /\ err.message = NotInitializedMessage -> -32002
      [] err.kind = "Protocol" -> -32600
      [] err.kind = "Validation" -> -32602
      [] err.kind \in {"ToolNotFound", "MethodNotFound"} -> -32601
      [] err.kind \in {"ResourceNotFound", "PromptNotFound", "InvalidResource"} -> -32000
      [] OTHER -> -32603

JsonRpcError(err) == [code |-> ErrorCode(err), message |-> err.message]

\* JsonRpcResponse::success / JsonRpcResponse::error.
JsonRpcResponse_success(value, id) ==
    [id |-> id, result |-> value, error |-> NoValue]

JsonRpcResponse_error(error, id) ==
    [id |-> id, result |-> NoValue, error |-> error]

\* McpResult<T>.
Ok(value) == [ok |-> TRUE, value |-> value, error |-> NoValue]

Err(error) == [ok |-> FALSE, value |-> NoValue, error |-> error]

\* JSON values the handlers produce.
JsonNull == [type |-> "null"]

Pong == [type |-> "object", status |-> "pong"]

Json(what) == [type |-> "object", of |-> what]

\* ------------------------------------------------------------ the inputs

\* Params of a non-batch request: absent, of the wrong shape, or well formed.
InvalidParams == [shape |-> "invalid"]

ValidParams == [shape |-> "valid"]

PlainParams == {NoValue, InvalidParams, ValidParams}

ItemIds == <<"a", "b", "c", "d", "e">>

SubMethods == {"ping", "tools/list", "batch"}

BatchRequest(i, method) == [id |-> ItemIds[i], method |-> method, params |-> NoValue]

\* Every list of up to MaxBatchSize sub-requests, and one list that is longer.
RequestLists ==
    UNION {{[i \in 1..k |-> BatchRequest(i, f[i])] : f \in [1..k -> SubMethods]} :
           k \in 0..MaxBatchSize}
    \cup {[i \in 1..(MaxBatchSize + 1) |-> BatchRequest(i, "ping")]}

ProtocolModes == {"parallel", "sequential", "dependency", "priority_dependency"}

\* Option<u32> as a sequence: <<>> is None, <<n>> is Some(n).
MaxParallelValues == {<<>>} \cup {<<n>> : n \in 0..MaxParallel}

\* Option<u64> timeout_ms: absent, or a number of milliseconds.
TimeoutValues == {<<>>, <<1>>}

\* BatchParams; the dependency modes are submitted without max_parallel, and
\* a timeout_ms comes with the parallel and sequential modes without
\* max_parallel.
BatchParamsSet ==
    {p \in [shape : {"valid"},
            requests : RequestLists,
            execution_mode : ProtocolModes,
            max_parallel : MaxParallelValues,
            timeout_ms : TimeoutValues] :
        /\ p.execution_mode \in {"dependency", "priority_dependency"} =>
              (p.max_parallel = <<>> /\ p.timeout_ms = <<>>)
        /\ p.timeout_ms # <<>> => p.max_parallel = <<>>}

ParamsOf(method) ==
    IF method = "batch" THEN {NoValue, InvalidParams} \cup BatchParamsSet
    ELSE PlainParams

JsonRpcRequest(method, params, id) == [method |-> method, params |-> params, id |-> id]

\* What the collaborator a handler calls answers: a value, nothing, or an error.
Outcomes == {"ok", "none", "err"}

\* The answers that make a difference to a request of the method: ping and the
\* initialized notifications call nothing, only a custom handler answers nothing.
OutcomesOf(method) ==
    CASE method \in {"ping", "initialized", "notifications/initialized", "batch"} -> {"ok"}
      [] method \in StandardMethods -> {"ok", "err"}
      [] OTHER -> Outcomes

VARIABLES
    config,         \* McpServerConfig: enable_batch, max_batch_size
    state,          \* McpServerState: which optional registries it exposes
    conn,           \* the SecurityContext the transport passes for the client
    handshaken,     \* an initialized notification was handled on the connection
    pc,             \* "idle", "batch" (engine running), "done" (response returned)
    request,        \* the request being handled / last handled
    response,       \* the JsonRpcResponse returned for it
    calls,          \* collaborator operations invoked for the request
    batch,          \* BatchContext and items of the batch being run / last run
    pulled,         \* sub-requests taken from the item stream / loop index
    inflight,       \* sub-request futures in progress (buffer_unordered's queue,
                    \* or the one the sequential loop awaits)
    results,        \* Vec<BatchItemResult> assembled so far
    progress,       \* updates given to progress_reporter.report_progress
    dispatched,     \* indices of sub-requests handed to handle_request
    stopped,        \* the sequential loop left by break
    elapsed,        \* batch.timeout_ms has passed since the batch was started
    template,       \* SimpleTemplateEngine::substitute: the template text
    arguments,      \* the HashMap of arguments given to substitute
    iteration,      \* the order in which that HashMap yields its entries
    output,         \* substitute(template, arguments)
    reapplied,      \* substitute(output, arguments), the same map once more
    repeated,       \* substitute(template, arguments) with an equal map built anew
    prompts,        \* InMemoryPromptRegistry.prompts: HashMap<String, Prompt>
    added,          \* for each name, the prompt most recently added under it,
                    \* and whether that addition was the first under the name
    prompt_call,    \* the registry operation in progress, with its inputs
    prompt_result,  \* what that operation returned
    registries,     \* MultiSchemeResourceRegistry.registries: the child
                    \* registry of each scheme
    resource_call,  \* the multi-scheme registry operation in progress
    resource_result,\* what that operation returned
    consulted,      \* the children the operation called, in the order of
                    \* the calls
    in_memory,      \* an InMemoryResourceRegistry: scheme_config, resources
    additions,      \* the resources add_resource was called with, in order
    in_memory_call, \* the in-memory registry operation in progress
    in_memory_result,   \* what that operation returned
    active_connections, \* McpServer.active_connections: the usize in the RwLock
    connections_lock,   \* the task holding the write guard of that RwLock
    tasks,          \* each task: where it is in its call, the value it
                    \* loaded, what get_health reported to it
    started,        \* how many calls the tasks have started
    opened,         \* how many connection_opened calls have completed
    closed,         \* how many connection_closed calls found a connection
    held            \* the values the counter has held

\* The variables of the dispatcher and the batch engine.
service_vars == <<config, state, conn, handshaken, pc, request, response, calls,
                  batch, pulled, inflight, results, progress, dispatched, stopped,
                  elapsed>>

\* The variables of the template engine.
template_vars == <<template, arguments, iteration, output, reapplied, repeated>>

\* The variables of the prompt registry.
prompt_vars == <<prompts, added, prompt_call, prompt_result>>

\* The variables of the multi-scheme resource registry.
resource_vars == <<registries, resource_call, resource_result, consulted>>

\* The variables of the single-scheme in-memory resource registry.
in_memory_vars == <<in_memory, additions, in_memory_call, in_memory_result>>

\* The variables of the connection counter.
connection_vars == <<active_connections, connections_lock, tasks, started,
                     opened, closed, held>>

vars == <<service_vars, template_vars, prompt_vars, resource_vars,
          in_memory_vars, connection_vars>>

\* The dispatcher and batch engine are not part of the run.
ServiceIdle ==
    /\ config = NoValue
    /\ state = NoValue
    /\ conn = NoValue
    /\ handshaken = FALSE
    /\ pc = "idle"
    /\ request = NoValue
    /\ response = NoValue
    /\ calls = <<>>
    /\ batch = NoValue
    /\ pulled = 0
    /\ inflight = {}
    /\ results = <<>>
    /\ progress = <<>>
    /\ dispatched = <<>>
    /\ stopped = FALSE
    /\ elapsed = FALSE

\* No template is being substituted.
TemplateEngineIdle ==
    /\ template = NoValue
    /\ arguments = NoValue
    /\ iteration = NoValue
    /\ output = NoValue
    /\ reapplied = NoValue
    /\ repeated = NoValue

\* No prompt registry has been constructed.
PromptRegistryIdle ==
    /\ prompts = NoValue
    /\ added = NoValue
    /\ prompt_call = NoValue
    /\ prompt_result = NoValue

\* No multi-scheme resource registry has been constructed.
ResourceRegistryIdle ==
    /\ registries = NoValue
    /\ resource_call = NoValue
    /\ resource_result = NoValue
    /\ consulted = NoValue

\* No in-memory resource registry has been constructed.
InMemoryRegistryIdle ==
    /\ in_memory = NoValue
    /\ additions = NoValue
    /\ in_memory_call = NoValue
    /\ in_memory_result = NoValue

\* No task opens or closes a connection or asks for the health.
ConnectionsIdle ==
    /\ active_connections = 0
    /\ connections_lock = <<>>
    /\ tasks = NoValue
    /\ started = 0
    /\ opened = 0
    /\ closed = 0
    /\ held = {0}

\* What the dispatcher and the batch engine leave alone: the registries'
\* state lives behind the McpServerState collaborators.
outside_service == <<template_vars, prompt_vars, resource_vars, in_memory_vars,
                     connection_vars>>

OutsideServiceIdle ==
    /\ TemplateEngineIdle /\ PromptRegistryIdle /\ ResourceRegistryIdle
    /\ InMemoryRegistryIdle /\ ConnectionsIdle

\* What the template engine leaves alone.
outside_template == <<service_vars, prompt_vars, resource_vars, in_memory_vars,
                      connection_vars>>

OutsideTemplateIdle ==
    /\ ServiceIdle /\ PromptRegistryIdle /\ ResourceRegistryIdle
    /\ InMemoryRegistryIdle /\ ConnectionsIdle

\* What the prompt registry leaves alone.
outside_prompts == <<service_vars, template_vars, resource_vars, in_memory_vars,
                     connection_vars>>

OutsidePromptsIdle ==
    /\ ServiceIdle /\ TemplateEngineIdle /\ ResourceRegistryIdle
    /\ InMemoryRegistryIdle /\ ConnectionsIdle

\* What the multi-scheme resource registry leaves alone.
outside_resources == <<service_vars, template_vars, prompt_vars, in_memory_vars,
                       connection_vars>>

OutsideResourcesIdle ==
    /\ ServiceIdle /\ TemplateEngineIdle /\ PromptRegistryIdle
    /\ InMemoryRegistryIdle /\ ConnectionsIdle

\* What the in-memory resource registry leaves alone.
outside_in_memory == <<service_vars, template_vars, prompt_vars, resource_vars,
                       connection_vars>>

OutsideInMemoryIdle ==
    /\ ServiceIdle /\ TemplateEngineIdle /\ PromptRegistryIdle
    /\ ResourceRegistryIdle /\ ConnectionsIdle

\* What the connection counter leaves alone.
outside_connections == <<service_vars, template_vars, prompt_vars, resource_vars,
                         in_memory_vars>>

OutsideConnectionsIdle ==
    /\ ServiceIdle /\ TemplateEngineIdle /\ PromptRegistryIdle
    /\ ResourceRegistryIdle /\ InMemoryRegistryIdle

\* ----------------------------------------------------------- dispatcher

\* The error a collaborator operation fails with.
CollaboratorError(op) ==
    CASE op = "execute_tool" -> McpError("ToolNotFound", "tool")
      [] op = "get_resource" -> McpError("ResourceNotFound", "resource")
      [] op = "get_prompt_with_args" -> McpError("InvalidResource", "Prompt not found")
      [] op = "handle_custom_method" -> McpError("MethodNotFound", "method")
      [] OTHER -> McpError("Internal", op)

\* An awaited collaborator operation `op` answering `oc`: McpResult<Option<Value>>
\* once the handler has serialized the value.
Call(op, oc) ==
    CASE oc = "err" -> Err(CollaboratorError(op))
      [] oc = "none" /\ op = "handle_custom_method" -> Ok(NoValue)
      [] OTHER -> Ok(Json(op))

\* An entry of the log of collaborator operations: the operation and its answer.
Invoked(op, oc) == [op |-> op, answer |-> IF oc = "err" THEN "err" ELSE "ok"]

\* What a handler hands back to handle_request: the McpResult, the collaborator
\* operations it invoked, and whether it entered the batch engine.
Handled(result, ops) == [result |-> result, calls |-> ops, engine |-> FALSE]

EnterEngine == [result |-> Ok(NoValue), calls |-> <<>>, engine |-> TRUE]

\* A deserialization that takes whatever it is given.
ParamsParse_accepts_all(params) == TRUE

\* serde_json::from_value(params) of the handler's params type.
ParamsParse(params) == params # NoValue /\ params.shape = "valid"

\* The "if let Some(params) = params { from_value(..)? } else { return Err(..) }"
\* prologue of the handlers that take params: the error it returns, if any.
ParamsError(method, params) ==
    IF params = NoValue
    THEN McpError("Protocol", "requires parameters")
    ELSE McpError("Protocol", "Invalid params")

\* The Batch arm parsing the params before it looks at config.enable_batch.
handle_batch_method_params_first(params) ==
    IF ~ParamsParse(params)
    THEN Handled(Err(ParamsError("batch", params)), <<>>)
    ELSE IF ~config.enable_batch
         THEN Handled(Err(McpError("Protocol", BatchDisabledMessage)), <<>>)
         ELSE EnterEngine

\* The StandardMethod::Batch arm of handle_standard_method.
handle_batch_method(params) ==
    IF ~config.enable_batch
    THEN Handled(Err(McpError("Protocol", BatchDisabledMessage)), <<>>)
    ELSE IF ParamsParse(params)
         THEN EnterEngine
         ELSE Handled(Err(ParamsError("batch", params)), <<>>)

\* McpServer::handle_standard_method.
handle_standard_method(method, params, ctx, oc) ==
    CASE method = "initialize" ->
           IF ParamsParse(params)
           THEN Handled(Call("initialize", oc), <<Invoked("initialize", oc)>>)
           ELSE Handled(Err(ParamsError(method, params)), <<>>)
      [] method \in {"initialized", "notifications/initialized"} ->
           Handled(Ok(NoValue), <<>>)
      [] method = "ping" ->
           Handled(Ok(Pong), <<>>)
      [] method = "tools/list" ->
           Handled(Call("list_tools", oc), <<Invoked("list_tools", oc)>>)
      [] method = "tools/call" ->
           IF ParamsParse(params)
           THEN Handled(Call("execute_tool", oc), <<Invoked("execute_tool", oc)>>)
           ELSE Handled(Err(ParamsError(method, params)), <<>>)
      [] method = "batch" ->
           handle_batch_method(params)
      [] method = "resources/list" ->
           IF state.resources
           THEN Handled(Call("list_resource_templates", oc), <<Invoked("list_resource_templates", oc)>>)
           ELSE Handled(Err(McpError("Protocol", "Resources not supported by this server")), <<>>)
      [] method = "resources/read" ->
           IF state.resources
           THEN IF ParamsParse(params)
                THEN Handled(Call("get_resource", oc), <<Invoked("get_resource", oc)>>)
                ELSE Handled(Err(ParamsError(method, params)), <<>>)
           ELSE Handled(Err(McpError("Protocol", "Resources not supported by this server")), <<>>)
      [] method = "prompts/list" ->
           IF state.prompts
           THEN Handled(Call("list_prompts", oc), <<Invoked("list_prompts", oc)>>)
           ELSE Handled(Err(McpError("Protocol", "Prompts not supported by this server")), <<>>)
      [] method = "prompts/get" ->
           IF state.prompts
           THEN IF ParamsParse(params)
                THEN Handled(Call("get_prompt_with_args", oc), <<Invoked("get_prompt_with_args", oc)>>)
                ELSE Handled(Err(ParamsError(method, params)), <<>>)
           ELSE Handled(Err(McpError("Protocol", "Prompts not supported by this server")), <<>>)
      [] OTHER ->
           Handled(Err(McpError("ToolNotFound", method)), <<>>)

\* McpServer::parse_method.
parse_method(method) ==
    IF method \in StandardMethods
    THEN [kind |-> "Standard", name |-> method]
    ELSE [kind |-> "Custom", name |-> method]

\* validate_request letting every request through.
validate_request_open(req, ctx) == Ok(NoValue)

\* validate_request gating every standard method, ping and initialize included.
validate_request_gates_all(req, ctx) ==
    LET m == parse_method(req.method) IN
    IF /\ m.kind = "Standard"
       /\ ~is_authenticated(ctx)
       /\ ~is_system(ctx)
       /\ ~has_capability(ctx, "initialized")
    THEN Err(McpError("Protocol", NotInitializedMessage))
    ELSE Ok(NoValue)

\* validate_request holding the custom methods behind the gate as well.
validate_request_gates_custom(req, ctx) ==
    LET m == parse_method(req.method) IN
    IF /\ (m.kind = "Custom" \/ requires_initialization(m.name))
       /\ ~is_authenticated(ctx)
       /\ ~is_system(ctx)
       /\ ~has_capability(ctx, "initialized")
    THEN Err(McpError("Protocol", NotInitializedMessage))
    ELSE Ok(NoValue)

\* McpServer::validate_request.
validate_request(req, ctx) ==
    LET m == parse_method(req.method) IN
    IF /\ m.kind = "Standard"
       /\ requires_initialization(m.name)
       /\ ~is_authenticated(ctx)
       /\ ~is_system(ctx)
       /\ ~has_capability(ctx, "initialized")
    THEN Err(McpError("Protocol", NotInitializedMessage))
    ELSE Ok(NoValue)

\* The initialized arms granting the connection the "initialized" capability.
connection_context_recording(req, ctx) ==
    IF req.method \in {"initialized", "notifications/initialized"}
    THEN [ctx EXCEPT !.capabilities = @ \cup {"initialized"}]
    ELSE ctx

\* The SecurityContext of the connection once handle_request has returned:
\* the context is passed by value, and the Initialized and
\* NotificationsInitialized arms of handle_standard_method record nothing.
connection_context(req, ctx) == ctx

\* What the Custom arm of handle_request passes to handle_custom_method: the
\* parsed method name, the params of the request and the caller's context.
handle_custom_method_arguments(req, ctx) ==
    [method |-> parse_method(req.method).name, params |-> req.params, context |-> ctx]

\* The "match method" of handle_request: the handler the request is routed to.
Route(req, ctx, oc) ==
    LET m == parse_method(req.method) IN
    IF m.kind = "Standard"
    THEN handle_standard_method(m.name, req.params, ctx, oc)
    ELSE Handled(Call("handle_custom_method", oc), <<Invoked("handle_custom_method", oc)>>)

\* The match answering Ok(None) with neither result nor error.
ToResponse_omits_null(result, id) ==
    IF result.ok
    THEN JsonRpcResponse_success(result.value, id)
    ELSE JsonRpcResponse_error(JsonRpcError(result.error), id)

\* The match answering an Err with result null.
ToResponse_swallows_error(result, id) ==
    IF result.ok /\ result.value # NoValue
    THEN JsonRpcResponse_success(result.value, id)
    ELSE JsonRpcResponse_success(JsonNull, id)

\* The "match result" of handle_request: the McpResult as a JsonRpcResponse.
ToResponse(result, id) ==
    IF result.ok
    THEN IF result.value # NoValue
         THEN JsonRpcResponse_success(result.value, id)
         ELSE JsonRpcResponse_success(JsonNull, id)
    ELSE JsonRpcResponse_error(JsonRpcError(result.error), id)

\* handle_request answering a rejected request without its id.
handle_request_drops_id(req, ctx, oc) ==
    LET v == validate_request(req, ctx) IN
    IF ~v.ok
    THEN [response |-> JsonRpcResponse_error(JsonRpcError(v.error), NoId),
          calls |-> <<>>, engine |-> FALSE]
    ELSE LET h == Route(req, ctx, oc) IN
         [response |-> ToResponse(h.result, req.id),
          calls |-> h.calls, engine |-> h.engine]

\* McpServer::handle_request, up to the point where the batch engine takes
\* over: the response, the collaborator operations invoked, and whether the
\* batch engine is entered instead (engine = TRUE, the response then comes
\* from handle_batch_request).
handle_request(req, ctx, oc) ==
    LET v == validate_request(req, ctx) IN
    IF ~v.ok
    THEN [response |-> JsonRpcResponse_error(JsonRpcError(v.error), req.id),
          calls |-> <<>>, engine |-> FALSE]
    ELSE LET h == Route(req, ctx, oc) IN
         [response |-> ToResponse(h.result, req.id),
          calls |-> h.calls, engine |-> h.engine]

\* --------------------------------------------------------- batch engine

\* The size check refusing a batch of exactly max_batch_size.
batch_too_large_inclusive(params) == Len(params.requests) >= config.max_batch_size

\* The size check that opens handle_batch_request.
batch_too_large(params) == Len(params.requests) > config.max_batch_size

BatchTooLargeError == McpError("Validation", "Batch size exceeds maximum")

\* The dependency modes run by the parallel executor.
batch_context_mode_dependency_parallel(execution_mode) ==
    CASE execution_mode = "parallel" -> "Parallel"
      [] execution_mode = "sequential" -> "Sequential"
      [] execution_mode = "dependency" -> "Parallel"
      [] execution_mode = "priority_dependency" -> "Parallel"

\* The execution mode of the BatchContext built by handle_batch_request.
batch_context_mode(execution_mode) ==
    CASE execution_mode = "parallel" -> "Parallel"
      [] execution_mode = "sequential" -> "Sequential"
      [] execution_mode = "dependency" -> "Sequential"
      [] execution_mode = "priority_dependency" -> "Sequential"

\* BatchContext, with the items and total_items handle_batch_request keeps.
BatchContext(params, ctx) ==
    [mode |-> batch_context_mode(params.execution_mode),
     max_parallel |-> params.max_parallel,
     timeout |-> params.timeout_ms,
     security |-> ctx,
     items |-> params.requests,
     total_items |-> Len(params.requests)]

\* Option::unwrap_or.
unwrap_or(opt, default) == IF opt = <<>> THEN default ELSE opt[1]

Min(a, b) == IF a <= b THEN a ELSE b

\* The started update without the number of sub-requests.
ProgressUpdate_started_without_total(total) == [phase |-> "started", n |-> 0]

\* ProgressUpdate::started / progress / completed.
ProgressUpdate_started(total) == [phase |-> "started", n |-> total]

ProgressUpdate_progress(completed) == [phase |-> "progress", n |-> completed]

ProgressUpdate_completed == [phase |-> "completed", n |-> 0]

\* The executors without the nested-batch check.
is_nested_batch_unchecked(item) == FALSE

\* "if item.method == "batch"" of both executors.
is_nested_batch(item) == item.method = "batch"

\* The BatchItemResult of a rejected nested batch.
NestedBatchItem(item) ==
    [id |-> item.id,
     result |-> NoValue,
     error |-> [code |-> -32600, message |-> NestedBatchMessage],
     execution_time_ms |-> 0,
     skipped |-> FALSE]

\* The JsonRpcRequest a sub-request is dispatched as.
SubRequest(item) == JsonRpcRequest(item.method, item.params, item.id)

\* The BatchItemResult marking a sub-request that failed as skipped.
ItemOfResponse_marks_skipped(item, resp) ==
    [id |-> item.id,
     result |-> IF resp.error = NoValue THEN resp.result ELSE NoValue,
     error |-> resp.error,
     execution_time_ms |-> 0,
     skipped |-> resp.error # NoValue]

\* The BatchItemResult built from the response of a dispatched sub-request.
ItemOfResponse(item, resp) ==
    [id |-> item.id,
     result |-> IF resp.error = NoValue THEN resp.result ELSE NoValue,
     error |-> resp.error,
     execution_time_ms |-> 0,
     skipped |-> FALSE]

\* The executor buffering every item's future at once, whatever max_parallel.
parallel_limit_unbounded(b) == Len(b.items)

\* let max_parallel = context.max_parallel.unwrap_or(10).min(items.len()).
parallel_limit(b) == Min(unwrap_or(b.max_parallel, 10), Len(b.items))

\* "completed += 1" inside the async move block of execute_batch_parallel:
\* the block owns a copy of the counter, taken when the closure builds it
\* from the executor's "let mut completed = 0".
parallel_completed == 0 + 1

\* stop_on_error taking any value of the metadata key for true.
stop_on_error_any_value(ctx) == ctx.stop_on_error # "<absent>"

\* The sequential loop without the stop_on_error break.
stop_on_error_never(ctx) == FALSE

\* stop_on_error of execute_batch_sequential.
stop_on_error(ctx) ==
    IF ctx.stop_on_error = "<absent>" THEN FALSE ELSE ctx.stop_on_error = "true"

\* The number of r in results with / without an error.
RECURSIVE CountErrors(_)
CountErrors(rs) ==
    IF rs = <<>> THEN 0
    ELSE (IF Head(rs).error # NoValue THEN 1 ELSE 0) + CountErrors(Tail(rs))

\* The BatchResult handle_batch_request returns.
BatchResult(b, rs) ==
    [type |-> "object",
     of |-> "BatchResult",
     stats |-> [total_requests |-> b.total_items,
                successful_requests |-> Len(rs) - CountErrors(rs),
                failed_requests |-> CountErrors(rs),
                skipped_requests |-> 0,
                max_parallel_executed |-> unwrap_or(b.max_parallel, 1)],
     results |-> rs]

\* ------------------------------------------------------------- actions

ServerConfigs == [enable_batch : BOOLEAN, max_batch_size : 1..MaxBatchSize]

ServerStates == [resources : BOOLEAN, prompts : BOOLEAN]

\* The servers the model constructs: batch enabled with every max_batch_size
\* and both optional registries, batch disabled with every choice of registries.
ServerSetups ==
    {s \in [config : ServerConfigs, state : ServerStates] :
        IF s.config.enable_batch
        THEN s.state.resources /\ s.state.prompts
        ELSE s.config.max_batch_size = MaxBatchSize}

Init ==
    /\ \E s \in ServerSetups : config = s.config /\ state = s.state
    /\ conn \in SecurityContexts
    /\ handshaken = FALSE
    /\ pc = "idle"
    /\ request = NoValue
    /\ response = NoValue
    /\ calls = <<>>
    /\ batch = NoValue
    /\ pulled = 0
    /\ inflight = {}
    /\ results = <<>>
    /\ progress = <<>>
    /\ dispatched = <<>>
    /\ stopped = FALSE
    /\ elapsed = FALSE
    /\ OutsideServiceIdle

Requests ==
    UNION {[method : {m}, params : ParamsOf(m), id : RequestIds] : m \in Methods}

BatchRequests == {r \in Requests : r.method = "batch" /\ r.params \in BatchParamsSet}

EngineIdle ==
    /\ batch' = NoValue
    /\ pulled' = 0
    /\ inflight' = {}
    /\ results' = <<>>
    /\ progress' = <<>>
    /\ dispatched' = <<>>
    /\ stopped' = FALSE
    /\ elapsed' = FALSE

\* handle_request on a request that the batch engine does not run: rejected by
\* validate_request, handled by a non-batch handler, or a batch refused before
\* the engine starts (disabled, bad params, too large).
HandleRequest(req, oc) ==
    /\ pc = "idle"
    /\ LET r == handle_request(req, conn, oc) IN
       /\ r.engine => batch_too_large(req.params)
       /\ response' = IF r.engine
                      THEN ToResponse(Err(BatchTooLargeError), req.id)
                      ELSE r.response
       /\ calls' = r.calls
       /\ handshaken' = (handshaken \/
                           (r.response.error = NoValue /\
                            req.method \in {"initialized", "notifications/initialized"}))
    /\ conn' = connection_context(req, conn)
    /\ request' = req
    /\ pc' = "done"
    /\ EngineIdle
    /\ UNCHANGED <<config, state>>
    /\ UNCHANGED outside_service

\* handle_request on a batch request up to the first await of the executor:
\* handle_batch_request has built the BatchContext and reported "started".
BatchStart(req) ==
    /\ pc = "idle"
    /\ handle_request(req, conn, "ok").engine
    /\ ~batch_too_large(req.params)
    /\ request' = req
    /\ response' = NoValue
    /\ calls' = <<>>
    /\ pc' = "batch"
    /\ batch' = BatchContext(req.params, conn)
    /\ progress' = <<ProgressUpdate_started(Len(req.params.requests))>>
    /\ pulled' = 0
    /\ inflight' = {}
    /\ results' = <<>>
    /\ dispatched' = <<>>
    /\ stopped' = FALSE
    /\ elapsed' = FALSE
    /\ UNCHANGED <<config, state, conn, handshaken>>
    /\ UNCHANGED outside_service

\* The item a sub-request future resolves to, and the collaborator operations
\* it invoked (a sub-request that is itself a batch re-enters the engine only
\* if the nested-batch check lets it through).
SubResult(item, oc) ==
    IF is_nested_batch(item)
    THEN [item |-> NestedBatchItem(item), calls |-> <<>>]
    ELSE LET r == handle_request(SubRequest(item), batch.security, oc) IN
         [item |-> ItemOfResponse(item, r.response), calls |-> r.calls]

\* execute_batch_parallel, buffer_unordered: the stream yields the next item's
\* future while fewer than max_parallel are in progress, and polls it.
ParallelPull ==
    /\ pc = "batch"
    /\ batch.mode = "Parallel"
    /\ pulled < Len(batch.items)
    /\ Cardinality(inflight) < parallel_limit(batch)
    /\ pulled' = pulled + 1
    /\ inflight' = inflight \cup {pulled + 1}
    /\ dispatched' = IF is_nested_batch(batch.items[pulled + 1])
                     THEN dispatched
                     ELSE Append(dispatched, pulled + 1)
    /\ UNCHANGED <<config, state, conn, handshaken, pc, request, response, calls,
                   batch, results, progress, stopped, elapsed>>
    /\ UNCHANGED outside_service

\* execute_batch_parallel: one of the futures in progress completes; collect()
\* pushes its item as buffer_unordered yields it.
ParallelComplete(i, oc) ==
    /\ pc = "batch"
    /\ batch.mode = "Parallel"
    /\ i \in inflight
    /\ LET s == SubResult(batch.items[i], oc) IN
       /\ results' = Append(results, s.item)
       /\ calls' = calls \o s.calls
    /\ progress' = Append(progress, ProgressUpdate_progress(parallel_completed))
    /\ inflight' = inflight \ {i}
    /\ UNCHANGED <<config, state, conn, handshaken, pc, request, response,
                   batch, pulled, dispatched, stopped, elapsed>>
    /\ UNCHANGED outside_service

\* execute_batch_sequential: the loop reaches a nested batch item.
SequentialReject ==
    /\ pc = "batch"
    /\ batch.mode = "Sequential"
    /\ inflight = {}
    /\ ~stopped
    /\ pulled < Len(batch.items)
    /\ is_nested_batch(batch.items[pulled + 1])
    /\ results' = Append(results, NestedBatchItem(batch.items[pulled + 1]))
    /\ progress' = Append(progress, ProgressUpdate_progress(pulled + 1))
    /\ pulled' = pulled + 1
    /\ UNCHANGED <<config, state, conn, handshaken, pc, request, response, calls,
                   batch, inflight, dispatched, stopped, elapsed>>
    /\ UNCHANGED outside_service

\* The loop handing the next item to handle_request without awaiting the
\* one in flight.
SequentialDispatch_eager ==
    /\ pc = "batch"
    /\ batch.mode = "Sequential"
    /\ ~stopped
    /\ pulled < Len(batch.items)
    /\ ~is_nested_batch(batch.items[pulled + 1])
    /\ inflight' = inflight \cup {pulled + 1}
    /\ dispatched' = Append(dispatched, pulled + 1)
    /\ pulled' = pulled + 1
    /\ UNCHANGED <<config, state, conn, handshaken, pc, request, response, calls,
                   batch, results, progress, stopped, elapsed>>
    /\ UNCHANGED outside_service

\* execute_batch_sequential: the loop hands the next item to handle_request.
SequentialDispatch ==
    /\ pc = "batch"
    /\ batch.mode = "Sequential"
    /\ inflight = {}
    /\ ~stopped
    /\ pulled < Len(batch.items)
    /\ ~is_nested_batch(batch.items[pulled + 1])
    /\ inflight' = {pulled + 1}
    /\ dispatched' = Append(dispatched, pulled + 1)
    /\ pulled' = pulled + 1
    /\ UNCHANGED <<config, state, conn, handshaken, pc, request, response, calls,
                   batch, results, progress, stopped, elapsed>>
    /\ UNCHANGED outside_service

\* execute_batch_sequential: handle_request returns for the item in flight.
SequentialComplete(oc) ==
    /\ pc = "batch"
    /\ batch.mode = "Sequential"
    /\ inflight # {}
    /\ LET i == CHOOSE j \in inflight : TRUE
           r == handle_request(SubRequest(batch.items[i]), batch.security, oc)
       IN
       /\ results' = Append(results, ItemOfResponse(batch.items[i], r.response))
       /\ calls' = calls \o r.calls
       /\ progress' = Append(progress, ProgressUpdate_progress(i))
       /\ stopped' = (stop_on_error(batch.security) /\ r.response.error # NoValue)
    /\ inflight' = {}
    /\ UNCHANGED <<config, state, conn, handshaken, pc, request, response,
                   batch, pulled, dispatched, elapsed>>
    /\ UNCHANGED outside_service

\* The executor returning as soon as no future is in progress, items of the
\* stream not yet taken included.
ExecutorReturned_buffer_drained ==
    /\ inflight = {}
    /\ IF batch.mode = "Parallel"
       THEN TRUE
       ELSE pulled = Len(batch.items) \/ stopped

\* The executor has returned its Vec<BatchItemResult>: collect() saw the
\* buffered stream end (buffer_unordered polls the item stream only while
\* fewer than max_parallel futures are in progress, and ends only after the
\* item stream has reported its end), or the sequential loop ended.
ExecutorReturned ==
    /\ inflight = {}
    /\ IF batch.mode = "Parallel"
       THEN pulled = Len(batch.items) /\ parallel_limit(batch) > 0
       ELSE pulled = Len(batch.items) \/ stopped

\* The tail of handle_batch_request and of handle_request: "completed" is
\* reported, the stats are computed and the BatchResult becomes the response.
BatchFinish ==
    /\ pc = "batch"
    /\ ExecutorReturned
    /\ progress' = Append(progress, ProgressUpdate_completed)
    /\ response' = ToResponse(Ok(BatchResult(batch, results)), request.id)
    /\ pc' = "done"
    /\ UNCHANGED <<config, state, conn, handshaken, request, calls, batch, pulled,
                   inflight, results, dispatched, stopped, elapsed>>
    /\ UNCHANGED outside_service

\* The time batch.timeout_ms allows has passed while the batch runs: the
\* Duration is stored in BatchContext.timeout and no executor, and nothing in
\* handle_batch_request, reads it or races the executor against a timer.
TimeoutElapses ==
    /\ pc = "batch"
    /\ batch.timeout # <<>>
    /\ ~elapsed
    /\ elapsed' = TRUE
    /\ UNCHANGED <<config, state, conn, handshaken, pc, request, response, calls,
                   batch, pulled, inflight, results, progress, dispatched, stopped>>
    /\ UNCHANGED outside_service

\* The transport hands the dispatcher a request of the connection.
Receive ==
    /\ pc = "idle"
    /\ \E req \in Requests : \E oc \in OutcomesOf(req.method) : HandleRequest(req, oc)

ReceiveBatch ==
    /\ pc = "idle"
    /\ \E req \in BatchRequests : BatchStart(req)

ParallelFutureCompletes ==
    /\ pc = "batch"
    /\ \E i \in inflight : \E oc \in OutcomesOf(batch.items[i].method) :
          ParallelComplete(i, oc)

SequentialFutureCompletes ==
    /\ pc = "batch"
    /\ \E i \in inflight : \E oc \in OutcomesOf(batch.items[i].method) :
          SequentialComplete(oc)

\* The transport has taken the response; the connection awaits a request.
Return ==
    /\ pc = "done"
    /\ pc' = "idle"
    /\ request' = NoValue
    /\ response' = NoValue
    /\ calls' = <<>>
    /\ EngineIdle
    /\ UNCHANGED <<config, state, conn, handshaken>>
    /\ UNCHANGED outside_service

Next ==
    \/ Receive
    \/ ReceiveBatch
    \/ ParallelPull
    \/ ParallelFutureCompletes
    \/ SequentialReject
    \/ SequentialDispatch
    \/ SequentialFutureCompletes
    \/ BatchFinish
    \/ TimeoutElapses
    \/ Return

Spec == Init /\ [][Next]_vars

\* The batch engine is scheduled: the executor is polled whenever it can take
\* a step, and every dispatched sub-request terminates.
EngineFairness ==
    /\ WF_vars(ParallelPull)
    /\ WF_vars(ParallelFutureCompletes)
    /\ WF_vars(SequentialReject)
    /\ WF_vars(SequentialDispatch)
    /\ WF_vars(SequentialFutureCompletes)
    /\ WF_vars(BatchFinish)

\* The server under that scheduling.
LiveSpec == Init /\ [][Next]_vars /\ EngineFairness

\* ------------------------------------------------------ template engine

\* A text is the sequence of its braces and of its brace-free runs: "{" and
\* "}" are one element each, a name or a stretch of other characters is one.

\* The parameter names arguments are supplied for.
Keys == {"a", "b"}

\* format!("{{{{{}}}}}", key): the placeholder of a key.
placeholder(key) == <<"{", "{", key, "}", "}">>

\* The opening marker of a conditional block on the key a, as the corpus
\* templates write it: "#if a" is a brace-free run like any other.
IfBlockOpen == <<"{", "{", "#if a", "}", "}">>

\* The pieces templates are put together from: the placeholders of the keys,
\* a conditional block marker, plain text, and stray braces.
Pieces ==
    {placeholder("a"), placeholder("b"), IfBlockOpen,
     <<"x">>, <<"{", "{">>, <<"}", "}">>}

RECURSIVE Concat(_)
Concat(pieces) ==
    IF pieces = <<>> THEN <<>> ELSE Head(pieces) \o Concat(Tail(pieces))

\* Every text of up to MaxPieces pieces.
Templates ==
    {Concat(ps) : ps \in UNION {[1..k -> Pieces] : k \in 0..MaxPieces}}

\* serde_json::Value arguments.
JsonString(s) == [type |-> "string", s |-> s]

JsonNumber(n) == [type |-> "number", n |-> n]

JsonBool(b) == [type |-> "bool", b |-> b]

JsonEmptyObject == [type |-> "object", members |-> <<>>]

\* The values of the arguments: every kind of value; among the strings, one
\* that is a key's name and the placeholders of the keys.
ArgValues ==
    {JsonNull, JsonString(<<"a">>), JsonString(placeholder("a")),
     JsonString(placeholder("b")), JsonNumber(30), JsonBool(TRUE),
     JsonEmptyObject}

\* HashMap<String, serde_json::Value>: a function from the supplied keys.
ArgumentMaps == UNION {[K -> ArgValues] : K \in SUBSET Keys}

\* The orders in which iterating a HashMap with these keys can yield them.
Orders(m) ==
    {o \in [1..Cardinality(DOMAIN m) -> DOMAIN m] :
        \A i, j \in 1..Cardinality(DOMAIN m) : o[i] = o[j] => i = j}

Digits == <<"0", "1", "2", "3", "4", "5", "6", "7", "8", "9">>

\* Number::to_string of a natural number.
RECURSIVE Decimal(_)
Decimal(n) ==
    IF n < 10 THEN <<Digits[n + 1]>>
    ELSE Decimal(n \div 10) \o <<Digits[(n % 10) + 1]>>

\* serde_json::to_string of an array or object (the empty object here).
to_string(value) == <<"{", "}">>

\* The "let replacement = match value" of substitute.
replacement(value) ==
    CASE value.type = "string" -> value.s
      [] value.type = "number" -> Decimal(value.n)
      [] value.type = "bool" -> IF value.b THEN <<"true">> ELSE <<"false">>
      [] value.type = "null" -> <<>>
      [] OTHER -> to_string(value)

\* A replacement of the first match only.
RECURSIVE replace_first(_, _, _)
replace_first(text, from, to) ==
    IF Len(text) < Len(from) THEN text
    ELSE IF SubSeq(text, 1, Len(from)) = from
         THEN to \o SubSeq(text, Len(from) + 1, Len(text))
         ELSE <<Head(text)>> \o replace_first(Tail(text), from, to)

\* str::replace with a non-empty pattern: the non-overlapping matches, found
\* from the left, are replaced; the replacements are not searched again.
RECURSIVE replace(_, _, _)
replace(text, from, to) ==
    IF Len(text) < Len(from) THEN text
    ELSE IF SubSeq(text, 1, Len(from)) = from
         THEN to \o replace(SubSeq(text, Len(from) + 1, Len(text)), from, to)
         ELSE <<Head(text)>> \o replace(Tail(text), from, to)

\* The "for (key, value) in params" loop of substitute, from the i-th entry
\* the map yields.
RECURSIVE substitute_from(_, _, _, _)
substitute_from(result, m, order, i) ==
    IF i > Len(order) THEN result
    ELSE substitute_from(
             replace(result, placeholder(order[i]), replacement(m[order[i]])),
             m, order, i + 1)

\* SimpleTemplateEngine::substitute, for a map that yields its entries in
\* `order`.
substitute(text, m, order) == Ok(substitute_from(text, m, order, 1))

TemplateInit ==
    /\ OutsideTemplateIdle
    /\ template \in Templates
    /\ arguments \in ArgumentMaps
    /\ iteration \in Orders(arguments)
    /\ output = NoValue
    /\ reapplied = NoValue
    /\ repeated = NoValue

\* substitute(template, arguments).
Substitute ==
    /\ output = NoValue
    /\ output' = substitute(template, arguments, iteration)
    /\ UNCHANGED <<template, arguments, iteration, reapplied, repeated>>
    /\ UNCHANGED outside_template

\* substitute(output, arguments): the same map applied to the output.
Reapply ==
    /\ output # NoValue
    /\ reapplied = NoValue
    /\ reapplied' = substitute(output.value, arguments, iteration)
    /\ UNCHANGED <<template, arguments, iteration, output, repeated>>
    /\ UNCHANGED outside_template

\* substitute(template, arguments) once more, with a map of the same entries
\* built anew (the arguments of another request): a HashMap's iteration
\* order depends on the random state it was created with.
Repeat ==
    /\ output # NoValue
    /\ repeated = NoValue
    /\ \E order \in Orders(arguments) :
          repeated' = substitute(template, arguments, order)
    /\ UNCHANGED <<template, arguments, iteration, output, reapplied>>
    /\ UNCHANGED outside_template

TemplateNext ==
    \/ Substitute
    \/ Reapply
    \/ Repeat

TemplateSpec == TemplateInit /\ [][TemplateNext]_vars

\* ------------------------------------------------------ prompt registry

\* McpError::InvalidResource { uri, message }.
InvalidResource(uri, message) ==
    [kind |-> "InvalidResource", uri |-> uri, message |-> message]

\* An Option<T> is the empty sequence (None) or a sequence of one value.
None == <<>>

Some(value) == <<value>>

\* PromptContent::Text.
Text(text) == [type |-> "Text", text |-> text]

\* The struct EmbeddedResource.
EmbeddedResource(uri, mime_type, annotation) ==
    [uri |-> uri, mime_type |-> mime_type, annotation |-> annotation]

ResourceAnnotation(description, role) ==
    [description |-> description, role |-> role]

\* PromptContent::EmbeddedResource.
EmbeddedResourceContent(resource, text) ==
    [type |-> "EmbeddedResource", resource |-> resource, text |-> text]

PromptMessage(role, content) == [role |-> role, content |-> content]

PromptParameter(name, required, default) ==
    [name |-> name, required |-> required, default |-> default]

Prompt(name, description, version, parameters, messages, metadata) ==
    [name |-> name, description |-> description, version |-> version,
     parameters |-> parameters, messages |-> messages, metadata |-> metadata]

GetPromptRequest(name, args) == [name |-> name, arguments |-> args]

GetPromptResult(name, messages, description) ==
    [name |-> name, messages |-> messages, description |-> description]

\* InMemoryPromptRegistry::new().prompts.
NoPrompts == <<>>

\* An insertion that keeps the prompt a name already has.
add_prompt_keep_first(registry, prompt) ==
    [name \in DOMAIN registry \cup {prompt.name} |->
        IF name \in DOMAIN registry THEN registry[name] ELSE prompt]

\* InMemoryPromptRegistry::add_prompt: HashMap::insert under prompt.name.
add_prompt(registry, prompt) ==
    [name \in DOMAIN registry \cup {prompt.name} |->
        IF name = prompt.name THEN prompt ELSE registry[name]]

\* The "let prompt" of add_workflow_prompt.
WorkflowPrompt(name, description, system_prompt, user_template, parameters) ==
    Prompt(name, description, "1.0.0", parameters,
           <<PromptMessage("system", Text(system_prompt)),
             PromptMessage("user", Text(user_template))>>,
           [type |-> "workflow"])

add_workflow_prompt(registry, name, description, system_prompt, user_template, parameters) ==
    add_prompt(registry,
               WorkflowPrompt(name, description, system_prompt, user_template,
                              parameters))

\* The user text of the code analysis prompt.
CodeAnalysisText ==
    <<"Please perform a ">> \o placeholder("analysis_type")
        \o <<" analysis of this code">>
        \o <<"{", "{", "#if focus_areas", "}", "}">>
        \o <<" focusing on: ">> \o placeholder("focus_areas")
        \o <<"{", "{", "/if", "}", "}">>
        \o <<". Provide specific recommendations.">>

\* The "let prompt" of add_code_analysis_prompt.
CodeAnalysisPrompt(name, description, resource_uri) ==
    Prompt(name, description, "1.0.0",
           <<PromptParameter("analysis_type", TRUE, None),
             PromptParameter("focus_areas", FALSE, Some(<<>>))>>,
           <<PromptMessage("system", Text(<<"You are an expert code reviewer.">>)),
             PromptMessage("user",
                 EmbeddedResourceContent(
                     EmbeddedResource(resource_uri, Some("text/plain"),
                         Some(ResourceAnnotation(<<"Source code to analyze">>,
                                                 "primary_input"))),
                     Some(CodeAnalysisText)))>>,
           [type |-> "code_analysis", resource_dependent |-> TRUE])

add_code_analysis_prompt(registry, name, description, resource_uri) ==
    add_prompt(registry, CodeAnalysisPrompt(name, description, resource_uri))

\* A rendering that substitutes in the uri of an embedded resource too.
render_message_uri_substituted(message, m, order) ==
    IF message.content.type = "Text"
    THEN Ok(PromptMessage(message.role,
                Text(substitute(message.content.text, m, order).value)))
    ELSE Ok(PromptMessage(message.role,
                EmbeddedResourceContent(
                    [message.content.resource EXCEPT
                        !.uri = substitute(@, m, order).value],
                    message.content.text)))

\* InMemoryPromptRegistry::render_message.
render_message(message, m, order) ==
    IF message.content.type = "Text"
    THEN Ok(PromptMessage(message.role,
                Text(substitute(message.content.text, m, order).value)))
    ELSE Ok(PromptMessage(message.role,
                EmbeddedResourceContent(
                    message.content.resource,
                    IF message.content.text = None THEN None
                    ELSE Some(substitute(message.content.text[1], m, order).value))))

\* list_prompts: the values of the HashMap, in the order it yields them.
list_prompts(registry, order) ==
    Ok([i \in 1..Len(order) |-> registry[order[i]]])

\* get_prompt: HashMap::get(name).cloned().
get_prompt(registry, name) ==
    Ok(IF name \in DOMAIN registry THEN Some(registry[name]) ELSE None)

PromptNotFoundError(name) ==
    InvalidResource(<<"prompt:", name>>, "Prompt not found")

RequiredNotProvided(name) ==
    McpError("Validation", <<"Required parameter '", name, "' not provided">>)

\* Nothing is ever reported missing.
MissingRequired_none(parameters, m) == <<>>

\* The declared parameters that are required and have no entry in the map,
\* in declared order.
MissingRequired(parameters, m) ==
    SelectSeq(parameters, LAMBDA p : p.required /\ p.name \notin DOMAIN m)

\* The loop over prompt.parameters: the first missing required parameter
\* ends it.
check_required(parameters, m) ==
    IF MissingRequired(parameters, m) = <<>> THEN Ok(NoValue)
    ELSE Err(RequiredNotProvided(MissingRequired(parameters, m)[1].name))

\* request.arguments.unwrap_or_default().
unwrap_or_default(args) == IF args = None THEN <<>> ELSE args[1]

\* A rendering that returns the description as it is stored.
get_prompt_with_args_description_stored(registry, req, order) ==
    IF get_prompt(registry, req.name).value = None
    THEN Err(PromptNotFoundError(req.name))
    ELSE LET prompt == registry[req.name]
             m == unwrap_or_default(req.arguments)
         IN  IF ~check_required(prompt.parameters, m).ok
             THEN Err(check_required(prompt.parameters, m).error)
             ELSE Ok(GetPromptResult(
                         req.name,
                         [i \in 1..Len(prompt.messages) |->
                             render_message(prompt.messages[i], m, order).value],
                         prompt.description))

\* get_prompt_with_args, the HashMap of the arguments yielding its entries in
\* `order`.
get_prompt_with_args(registry, req, order) ==
    IF get_prompt(registry, req.name).value = None
    THEN Err(PromptNotFoundError(req.name))
    ELSE LET prompt == registry[req.name]
             m == unwrap_or_default(req.arguments)
         IN  IF ~check_required(prompt.parameters, m).ok
             THEN Err(check_required(prompt.parameters, m).error)
             ELSE Ok(GetPromptResult(
                         req.name,
                         [i \in 1..Len(prompt.messages) |->
                             render_message(prompt.messages[i], m, order).value],
                         substitute(prompt.description, m, order).value))

\* validate_prompt_parameters.
validate_prompt_parameters(registry, name, m) ==
    IF get_prompt(registry, name).value = None
    THEN Err(PromptNotFoundError(name))
    ELSE check_required(registry[name].parameters, m)

\* The names prompts are registered and requested under.
PromptNames == {"review", "deploy"}

\* A resource URI that has the text of a placeholder in it.
PlaceholderUri == <<"file://">> \o placeholder("a")

\* Prompts given to add_prompt: text and embedded-resource messages of every
\* role, repeated and nested placeholders, required parameters declared in
\* either order, an embedded resource with and without text.
CustomPrompts(name) ==
    {Prompt(name, <<"x">> \o placeholder("a"), "2.0.0",
            <<PromptParameter("a", TRUE, None),
              PromptParameter("b", FALSE, Some(JsonString(<<"x">>)))>>,
            <<PromptMessage("assistant",
                  Text(placeholder("a") \o <<"x">> \o placeholder("a")
                           \o placeholder("b"))),
              PromptMessage("user",
                  EmbeddedResourceContent(
                      EmbeddedResource(PlaceholderUri, None,
                          Some(ResourceAnnotation(placeholder("a"), "context"))),
                      None)),
              PromptMessage("system",
                  Text(<<"{", "{">> \o placeholder("b") \o <<"}", "}">>))>>,
            [type |-> "custom"]),
     Prompt(name, placeholder("b"), "2.0.0",
            <<PromptParameter("b", TRUE, None),
              PromptParameter("a", TRUE, Some(JsonString(<<"x">>)))>>,
            <<PromptMessage("user",
                  EmbeddedResourceContent(
                      EmbeddedResource(PlaceholderUri, Some(placeholder("b")), None),
                      Some(placeholder("a") \o IfBlockOpen)))>>,
            [type |-> "custom"])}

\* Inputs of add_workflow_prompt.
WorkflowInputs ==
    {[description |-> <<"Run ">> \o placeholder("a"),
      system_prompt |-> <<"x">>,
      user_template |-> placeholder("a") \o <<"x">> \o placeholder("b"),
      parameters |-> <<PromptParameter("a", TRUE, None)>>],
     [description |-> <<"x">>,
      system_prompt |-> placeholder("b"),
      user_template |-> <<"x">>,
      parameters |-> <<>>]}

\* Inputs of add_code_analysis_prompt.
CodeAnalysisInputs ==
    {[description |-> <<"Review for ">> \o placeholder("analysis_type"),
      resource_uri |-> <<"ratchet://tasks/code-review">>]}

\* The argument maps of the requests: the keys a and b with plain values,
\* values that are placeholder text and a value that is a name, and
\* analysis_type.
PromptArgValues ==
    {JsonString(<<"x">>), JsonString(placeholder("b")), JsonString(<<"a">>)}

PromptArgumentMaps ==
    UNION {[K -> PromptArgValues] : K \in SUBSET Keys}
    \cup {[k \in K \cup {"analysis_type"} |->
              IF k = "analysis_type" THEN JsonString(<<"x">>) ELSE m[k]] :
          K \in SUBSET Keys, m \in [Keys -> PromptArgValues]}

GetPromptRequests ==
    {GetPromptRequest(name, args) :
        name \in PromptNames,
        args \in {None} \cup {Some(m) : m \in PromptArgumentMaps}}

PromptInit ==
    /\ OutsidePromptsIdle
    /\ prompts = NoPrompts
    /\ added = NoPrompts
    /\ prompt_call = NoValue
    /\ prompt_result = NoValue

\* What every add_* call does to the record of the latest additions: the
\* prompt added, and whether its name had been added before.
Added(prompt) ==
    [name \in DOMAIN added \cup {prompt.name} |->
        IF name = prompt.name
        THEN [prompt |-> prompt, replaced |-> name \in DOMAIN added]
        ELSE added[name]]

AddPrompt ==
    /\ prompt_call = NoValue
    /\ \E name \in PromptNames : \E prompt \in CustomPrompts(name) :
          /\ prompts' = add_prompt(prompts, prompt)
          /\ added' = Added(prompt)
    /\ UNCHANGED <<prompt_call, prompt_result>>
    /\ UNCHANGED outside_prompts

AddWorkflowPrompt ==
    /\ prompt_call = NoValue
    /\ \E name \in PromptNames : \E in \in WorkflowInputs :
          /\ prompts' = add_workflow_prompt(prompts, name, in.description,
                                            in.system_prompt, in.user_template,
                                            in.parameters)
          /\ added' = Added(WorkflowPrompt(name, in.description,
                                           in.system_prompt, in.user_template,
                                           in.parameters))
    /\ UNCHANGED <<prompt_call, prompt_result>>
    /\ UNCHANGED outside_prompts

AddCodeAnalysisPrompt ==
    /\ prompt_call = NoValue
    /\ \E name \in PromptNames : \E in \in CodeAnalysisInputs :
          /\ prompts' = add_code_analysis_prompt(prompts, name, in.description,
                                                 in.resource_uri)
          /\ added' = Added(CodeAnalysisPrompt(name, in.description,
                                               in.resource_uri))
    /\ UNCHANGED <<prompt_call, prompt_result>>
    /\ UNCHANGED outside_prompts

ListPrompts ==
    /\ prompt_call = NoValue
    /\ \E order \in Orders(prompts) :
          /\ prompt_call' = [op |-> "list_prompts"]
          /\ prompt_result' = list_prompts(prompts, order)
    /\ UNCHANGED <<prompts, added>>
    /\ UNCHANGED outside_prompts

GetPrompt ==
    /\ prompt_call = NoValue
    /\ \E name \in PromptNames :
          /\ prompt_call' = [op |-> "get_prompt", name |-> name]
          /\ prompt_result' = get_prompt(prompts, name)
    /\ UNCHANGED <<prompts, added>>
    /\ UNCHANGED outside_prompts

GetPromptWithArgs ==
    /\ prompt_call = NoValue
    /\ \E req \in GetPromptRequests :
       \E order \in Orders(unwrap_or_default(req.arguments)) :
          /\ prompt_call' = [op |-> "get_prompt_with_args", request |-> req,
                             order |-> order]
          /\ prompt_result' = get_prompt_with_args(prompts, req, order)
    /\ UNCHANGED <<prompts, added>>
    /\ UNCHANGED outside_prompts

ValidatePromptParameters ==
    /\ prompt_call = NoValue
    /\ \E name \in PromptNames : \E m \in PromptArgumentMaps :
          /\ prompt_call' = [op |-> "validate_prompt_parameters",
                             name |-> name, params |-> m]
          /\ prompt_result' = validate_prompt_parameters(prompts, name, m)
    /\ UNCHANGED <<prompts, added>>
    /\ UNCHANGED outside_prompts

\* The caller has the result; the registry is ready for the next call.
PromptReturn ==
    /\ prompt_call # NoValue
    /\ prompt_call' = NoValue
    /\ prompt_result' = NoValue
    /\ UNCHANGED <<prompts, added>>
    /\ UNCHANGED outside_prompts

PromptNext ==
    \/ AddPrompt
    \/ AddWorkflowPrompt
    \/ AddCodeAnalysisPrompt
    \/ ListPrompts
    \/ GetPrompt
    \/ GetPromptWithArgs
    \/ ValidatePromptParameters
    \/ PromptReturn

PromptSpec == PromptInit /\ [][PromptNext]_vars

\* -------------------------------------------- multi-scheme resource registry

\* A URI is the sequence of its ":" and "/" characters and of the runs of
\* other characters between them.
Separator == <<":", "/", "/">>

\* The index of the last match of the pattern, 0 for None.
find_last(text, pattern) ==
    LET matches == {i \in 1..Len(text) :
                       /\ i + Len(pattern) - 1 <= Len(text)
                       /\ SubSeq(text, i, i + Len(pattern) - 1) = pattern}
    IN  IF matches = {} THEN 0
        ELSE CHOOSE i \in matches : \A j \in matches : i >= j

\* str::find: the index of the first match of the pattern, 0 for None.
find(text, pattern) ==
    LET matches == {i \in 1..Len(text) :
                       /\ i + Len(pattern) - 1 <= Len(text)
                       /\ SubSeq(text, i, i + Len(pattern) - 1) = pattern}
    IN  IF matches = {} THEN 0
        ELSE CHOOSE i \in matches : \A j \in matches : i <= j

\* McpError::ResourceNotFound { uri }.
ResourceNotFound(uri) == [kind |-> "ResourceNotFound", uri |-> uri]

\* A Resource, as the child registry that holds it returns it.
Resource(uri, name) == [uri |-> uri, name |-> name]

\* The subscription ids unsubscribe is asked for.
SubscriptionIds == {"s1", "s2"}

\* A child registry: an InMemoryResourceRegistry, or another implementation
\* of the ResourceRegistry trait. `name` tells the children of one scheme
\* apart; `resources` are the URIs it has a resource for; `subscriptions`
\* are the ids another implementation unsubscribes.
ChildRegistry(kind, scheme, name, resources, subscriptions) ==
    [kind |-> kind, scheme |-> scheme, name |-> name,
     resources |-> resources, subscriptions |-> subscriptions]

\* registry.uri_scheme().scheme.
uri_scheme(registry) == [scheme |-> registry.scheme]

\* A child's get_resource: InMemoryResourceRegistry::get_resource, and the
\* same lookup for another implementation.
child_get_resource(registry, uri) ==
    IF uri \in registry.resources THEN Ok(Resource(uri, registry.name))
    ELSE Err(ResourceNotFound(uri))

\* A child's unsubscribe_from_resource: InMemoryResourceRegistry accepts every
\* id; another implementation accepts the ids it knows.
child_unsubscribe_from_resource(registry, subscription_id) ==
    IF registry.kind = "in_memory" \/ subscription_id \in registry.subscriptions
    THEN Ok(NoValue)
    ELSE Err(McpError("Internal", "unknown subscription"))

\* MultiSchemeResourceRegistry::new().registries.
NoRegistries == <<>>

\* MultiSchemeResourceRegistry::register_scheme.
register_scheme(multi, registry) ==
    [scheme \in DOMAIN multi \cup {uri_scheme(registry).scheme} |->
        IF scheme = uri_scheme(registry).scheme THEN registry ELSE multi[scheme]]

\* The scheme get_registry_for_uri extracts: &uri[..pos].
scheme_of(uri) == SubSeq(uri, 1, find(uri, Separator) - 1)

\* MultiSchemeResourceRegistry::get_registry_for_uri; the registry found is
\* given by its key.
get_registry_for_uri(multi, uri) ==
    IF find(uri, Separator) = 0
    THEN Err(InvalidResource(uri, "URI missing scheme"))
    ELSE IF scheme_of(uri) \in DOMAIN multi
         THEN Ok(scheme_of(uri))
         ELSE Err(InvalidResource(uri, <<"No registry found for scheme '",
                                         scheme_of(uri), "'">>))

\* MultiSchemeResourceRegistry::get_resource, with the children it called.
get_resource(multi, uri) ==
    LET registry == get_registry_for_uri(multi, uri)
    IN  IF ~registry.ok
        THEN [result |-> Err(registry.error), consulted |-> <<>>]
        ELSE [result |-> child_get_resource(multi[registry.value], uri),
              consulted |-> <<registry.value>>]

\* UriSchemeConfig::matches_uri: uri.starts_with(format!("{}://", scheme)).
matches_uri(scheme_config, uri) ==
    /\ Len(uri) >= Len(scheme_config.scheme \o Separator)
    /\ SubSeq(uri, 1, Len(scheme_config.scheme \o Separator)) = scheme_config.scheme \o Separator

\* ResourceRegistry::can_handle_uri, the provided method a child inherits.
child_can_handle_uri(registry, uri) == matches_uri(uri_scheme(registry), uri)

\* A child's resource_exists: InMemoryResourceRegistry::resource_exists, and
\* the same lookup for another implementation.
child_resource_exists(registry, uri) == Ok(uri \in registry.resources)

\* A ResourceSubscription; the subscription id is a fresh UUID, of which the
\* model keeps only that it is one.
ResourceSubscription(uri) == [uri |-> uri, subscription_id |-> "<uuid>"]

\* A child's subscribe_to_resource: InMemoryResourceRegistry subscribes to
\* every URI, and so does another implementation.
child_subscribe_to_resource(registry, uri) == Ok(ResourceSubscription(uri))

\* MultiSchemeResourceRegistry::resource_exists, with the children it called.
resource_exists(multi, uri) ==
    LET registry == get_registry_for_uri(multi, uri)
    IN  IF ~registry.ok
        THEN [result |-> Err(registry.error), consulted |-> <<>>]
        ELSE [result |-> child_resource_exists(multi[registry.value], uri),
              consulted |-> <<registry.value>>]

\* MultiSchemeResourceRegistry::subscribe_to_resource, with the children it
\* called.
subscribe_to_resource(multi, uri) ==
    LET registry == get_registry_for_uri(multi, uri)
    IN  IF ~registry.ok
        THEN [result |-> Err(registry.error), consulted |-> <<>>]
        ELSE [result |-> child_subscribe_to_resource(multi[registry.value], uri),
              consulted |-> <<registry.value>>]

\* can_handle_uri answering for every URI that has a separator.
can_handle_uri_any_scheme(multi, uri) == find(uri, Separator) # 0

\* MultiSchemeResourceRegistry::can_handle_uri.
can_handle_uri(multi, uri) == get_registry_for_uri(multi, uri).ok

\* The call unwound with a panic instead of returning.
Panicked == [ok |-> FALSE, value |-> NoValue, error |-> NoValue, panicked |-> TRUE]

\* MultiSchemeResourceRegistry::uri_scheme: the body is a panic!.
multi_uri_scheme(multi) == Panicked

\* An unsubscribe that gives up when the first child rejects the id.
unsubscribe_from_resource_first_only(multi, subscription_id, order) ==
    IF /\ order # <<>>
       /\ child_unsubscribe_from_resource(multi[order[1]], subscription_id).ok
    THEN [result |-> Ok(NoValue), consulted |-> <<order[1]>>]
    ELSE [result |-> Err(InvalidResource(
                             <<"subscription:", subscription_id>>,
                             "Subscription not found in any registry")),
          consulted |-> IF order = <<>> THEN <<>> ELSE <<order[1]>>]

\* MultiSchemeResourceRegistry::unsubscribe_from_resource, the HashMap
\* yielding its values in `order`, with the children it called.
unsubscribe_from_resource(multi, subscription_id, order) ==
    LET accepting ==
            {i \in 1..Len(order) :
                child_unsubscribe_from_resource(multi[order[i]],
                                                subscription_id).ok}
    IN  IF accepting = {}
        THEN [result |-> Err(InvalidResource(
                                 <<"subscription:", subscription_id>>,
                                 "Subscription not found in any registry")),
              consulted |-> order]
        ELSE LET first == CHOOSE i \in accepting : \A j \in accepting : i <= j
             IN  [result |-> Ok(NoValue), consulted |-> SubSeq(order, 1, first)]

\* The URIs asked for: one of each registered scheme, one with two
\* separators, one of a scheme no child has, and ones without a separator
\* or without a scheme before it.
MemUri == <<"mem", ":", "/", "/", "a">>

FileUri == <<"file", ":", "/", "/", "a">>

NestedUri == <<"mem", ":", "/", "/", "file", ":", "/", "/", "a">>

Uris ==
    {MemUri, FileUri, NestedUri,
     <<"ftp", ":", "/", "/", "a">>,
     <<"mem", ":", "/", "a">>,
     <<"mem">>,
     <<":", "/", "/", "a">>}

\* The schemes children are registered for; the last is never the text
\* before the first separator of a URI.
Schemes == {<<"mem">>, <<"file">>, <<"mem", ":", "/", "/", "file">>}

\* The children given to register_scheme: for each scheme, in-memory
\* registries with different resources, and other implementations that
\* unsubscribe no id or one id.
ChildRegistries ==
    {ChildRegistry("in_memory", scheme, "first", {MemUri, FileUri, NestedUri}, {}) :
        scheme \in Schemes}
    \cup {ChildRegistry("in_memory", scheme, "second", {MemUri}, {}) :
             scheme \in Schemes}
    \cup {ChildRegistry("other", scheme, "third", {FileUri, NestedUri}, {}) :
             scheme \in Schemes}
    \cup {ChildRegistry("other", scheme, "fourth", {}, {"s1"}) :
             scheme \in Schemes}

ResourceInit ==
    /\ OutsideResourcesIdle
    /\ registries = NoRegistries
    /\ resource_call = NoValue
    /\ resource_result = NoValue
    /\ consulted = <<>>

RegisterScheme ==
    /\ resource_call = NoValue
    /\ \E registry \in ChildRegistries :
          registries' = register_scheme(registries, registry)
    /\ UNCHANGED <<resource_call, resource_result, consulted>>
    /\ UNCHANGED outside_resources

GetResource ==
    /\ resource_call = NoValue
    /\ \E uri \in Uris :
          /\ resource_call' = [op |-> "get_resource", uri |-> uri]
          /\ resource_result' = get_resource(registries, uri).result
          /\ consulted' = get_resource(registries, uri).consulted
    /\ UNCHANGED registries
    /\ UNCHANGED outside_resources

UnsubscribeFromResource ==
    /\ resource_call = NoValue
    /\ \E subscription_id \in SubscriptionIds : \E order \in Orders(registries) :
          /\ resource_call' = [op |-> "unsubscribe_from_resource",
                               subscription_id |-> subscription_id]
          /\ resource_result' =
                 unsubscribe_from_resource(registries, subscription_id, order).result
          /\ consulted' =
                 unsubscribe_from_resource(registries, subscription_id, order).consulted
    /\ UNCHANGED registries
    /\ UNCHANGED outside_resources

ResourceExists ==
    /\ resource_call = NoValue
    /\ \E uri \in Uris :
          /\ resource_call' = [op |-> "resource_exists", uri |-> uri]
          /\ resource_result' = resource_exists(registries, uri).result
          /\ consulted' = resource_exists(registries, uri).consulted
    /\ UNCHANGED registries
    /\ UNCHANGED outside_resources

SubscribeToResource ==
    /\ resource_call = NoValue
    /\ \E uri \in Uris :
          /\ resource_call' = [op |-> "subscribe_to_resource", uri |-> uri]
          /\ resource_result' = subscribe_to_resource(registries, uri).result
          /\ consulted' = subscribe_to_resource(registries, uri).consulted
    /\ UNCHANGED registries
    /\ UNCHANGED outside_resources

\* can_handle_uri returns a bool, held here as the value of the result.
CanHandleUri ==
    /\ resource_call = NoValue
    /\ \E uri \in Uris :
          /\ resource_call' = [op |-> "can_handle_uri", uri |-> uri]
          /\ resource_result' = Ok(can_handle_uri(registries, uri))
    /\ consulted' = <<>>
    /\ UNCHANGED registries
    /\ UNCHANGED outside_resources

\* uri_scheme() called on the multi-scheme registry through the trait.
UriScheme ==
    /\ resource_call = NoValue
    /\ resource_call' = [op |-> "uri_scheme"]
    /\ resource_result' = multi_uri_scheme(registries)
    /\ consulted' = <<>>
    /\ UNCHANGED registries
    /\ UNCHANGED outside_resources

\* The caller has the result; the registry is ready for the next call.
ResourceReturn ==
    /\ resource_call # NoValue
    /\ resource_result # Panicked
    /\ resource_call' = NoValue
    /\ resource_result' = NoValue
    /\ consulted' = <<>>
    /\ UNCHANGED registries
    /\ UNCHANGED outside_resources

ResourceNext ==
    \/ RegisterScheme
    \/ GetResource
    \/ ResourceExists
    \/ SubscribeToResource
    \/ CanHandleUri
    \/ UriScheme
    \/ UnsubscribeFromResource
    \/ ResourceReturn

ResourceSpec == ResourceInit /\ [][ResourceNext]_vars

\* ------------------------------------------- in-memory resource registry

\* InMemoryResourceRegistry::new(scheme_config): no resource yet.
InMemoryResourceRegistry_new(scheme_config) ==
    [scheme_config |-> scheme_config, resources |-> <<>>]

\* add_resource leaving the resource already stored under the URI in place.
add_resource_keep_first(registry, resource) ==
    [registry EXCEPT !.resources =
        [uri \in DOMAIN registry.resources \cup {resource.uri} |->
            IF uri \in DOMAIN registry.resources
            THEN registry.resources[uri] ELSE resource]]

\* InMemoryResourceRegistry::add_resource:
\* self.resources.insert(resource.uri.clone(), resource).
add_resource(registry, resource) ==
    [registry EXCEPT !.resources =
        [uri \in DOMAIN registry.resources \cup {resource.uri} |->
            IF uri = resource.uri THEN resource ELSE registry.resources[uri]]]

\* InMemoryResourceRegistry::get_resource.
in_memory_get_resource(registry, uri) ==
    IF uri \in DOMAIN registry.resources
    THEN Ok(registry.resources[uri])
    ELSE Err(ResourceNotFound(uri))

\* InMemoryResourceRegistry::resource_exists.
in_memory_resource_exists(registry, uri) == Ok(uri \in DOMAIN registry.resources)

\* The URIs resources are added under and asked for; the registry is one of
\* the scheme "mem" and add_resource takes a resource of any URI.
ResourceUris == {MemUri, FileUri, <<"mem", ":", "/", "/", "b">>}

\* The resources given to add_resource: two different ones for each URI.
Resources == {Resource(uri, name) : uri \in ResourceUris, name \in {"one", "two"}}

InMemoryInit ==
    /\ OutsideInMemoryIdle
    /\ in_memory = InMemoryResourceRegistry_new([scheme |-> <<"mem">>])
    /\ additions = <<>>
    /\ in_memory_call = NoValue
    /\ in_memory_result = NoValue

AddResource ==
    /\ in_memory_call = NoValue
    /\ Len(additions) < MaxAdditions
    /\ \E resource \in Resources :
          /\ in_memory' = add_resource(in_memory, resource)
          /\ additions' = Append(additions, resource)
    /\ UNCHANGED <<in_memory_call, in_memory_result>>
    /\ UNCHANGED outside_in_memory

InMemoryGetResource ==
    /\ in_memory_call = NoValue
    /\ \E uri \in ResourceUris :
          /\ in_memory_call' = [op |-> "get_resource", uri |-> uri]
          /\ in_memory_result' = in_memory_get_resource(in_memory, uri)
    /\ UNCHANGED <<in_memory, additions>>
    /\ UNCHANGED outside_in_memory

InMemoryResourceExists ==
    /\ in_memory_call = NoValue
    /\ \E uri \in ResourceUris :
          /\ in_memory_call' = [op |-> "resource_exists", uri |-> uri]
          /\ in_memory_result' = in_memory_resource_exists(in_memory, uri)
    /\ UNCHANGED <<in_memory, additions>>
    /\ UNCHANGED outside_in_memory

\* The caller has the result; the registry is ready for the next call.
InMemoryReturn ==
    /\ in_memory_call # NoValue
    /\ in_memory_call' = NoValue
    /\ in_memory_result' = NoValue
    /\ UNCHANGED <<in_memory, additions>>
    /\ UNCHANGED outside_in_memory

InMemoryNext ==
    \/ AddResource
    \/ InMemoryGetResource
    \/ InMemoryResourceExists
    \/ InMemoryReturn

InMemorySpec == InMemoryInit /\ [][InMemoryNext]_vars

\* -------------------------------------------------- connection counter

Tasks == 1..MaxTasks

\* A task that is in none of the three calls.
TaskIdle == [pc |-> "idle", loaded |-> 0, reported |-> <<>>]

\* RwLock::write resolves at once whatever guard is held.
write_lock_never_waits(lock) == TRUE

\* RwLock::write resolves: no other guard of the lock is alive. (The read
\* guard of get_health lives within one statement, so the guards alive
\* between two steps are write guards.)
write_lock_available(lock) == lock = <<>>

\* RwLock::read resolves: no write guard of the lock is alive.
read_lock_available(lock) == lock = <<>>

ConnectionInit ==
    /\ OutsideConnectionsIdle
    /\ active_connections = 0
    /\ connections_lock = <<>>
    /\ tasks = [t \in Tasks |-> TaskIdle]
    /\ started = 0
    /\ opened = 0
    /\ closed = 0
    /\ held = {0}

\* A task calls connection_opened or connection_closed and is given the write
\* guard: "let mut connections = self.active_connections.write().await".
AcquireWrite(t, call) ==
    /\ tasks[t].pc = "idle"
    /\ started < MaxCalls
    /\ write_lock_available(connections_lock)
    /\ connections_lock' = <<t>>
    /\ tasks' = [tasks EXCEPT ![t] = [pc |-> call, loaded |-> 0, reported |-> <<>>]]
    /\ started' = started + 1
    /\ UNCHANGED <<active_connections, opened, closed, held>>
    /\ UNCHANGED outside_connections

\* The read of "*connections += 1" and of "if *connections > 0".
Load(t) ==
    /\ tasks[t].pc \in {"connection_opened", "connection_closed"}
    /\ tasks' = [tasks EXCEPT ![t].pc = IF @ = "connection_opened" THEN "opening" ELSE "closing",
                              ![t].loaded = active_connections]
    /\ UNCHANGED <<active_connections, connections_lock, started, opened, closed, held>>
    /\ UNCHANGED outside_connections

\* The write of "*connections += 1"; the guard is dropped as the call returns.
OpenStore(t) ==
    /\ tasks[t].pc = "opening"
    /\ active_connections' = tasks[t].loaded + 1
    /\ held' = held \cup {tasks[t].loaded + 1}
    /\ opened' = opened + 1
    /\ connections_lock' = <<>>
    /\ tasks' = [tasks EXCEPT ![t] = TaskIdle]
    /\ UNCHANGED <<started, closed>>
    /\ UNCHANGED outside_connections

\* "if *connections > 0 { *connections -= 1; }"; the guard is dropped as the
\* call returns. `closed` counts the calls made while a connection was open.
CloseStore(t) ==
    /\ tasks[t].pc = "closing"
    /\ active_connections' = IF tasks[t].loaded > 0 THEN tasks[t].loaded - 1
                             ELSE active_connections
    /\ held' = held \cup {active_connections'}
    /\ closed' = IF active_connections > 0 THEN closed + 1 ELSE closed
    /\ connections_lock' = <<>>
    /\ tasks' = [tasks EXCEPT ![t] = TaskIdle]
    /\ UNCHANGED <<started, opened>>
    /\ UNCHANGED outside_connections

\* get_health up to its second await: the ServerHealth is cloned under the
\* read guard of the health lock and the uptime is set.
HealthClone(t) ==
    /\ tasks[t].pc = "idle"
    /\ started < MaxCalls
    /\ tasks' = [tasks EXCEPT ![t] = [pc |-> "get_health", loaded |-> 0, reported |-> <<>>]]
    /\ started' = started + 1
    /\ UNCHANGED <<active_connections, connections_lock, opened, closed, held>>
    /\ UNCHANGED outside_connections

\* "health.active_connections = *self.active_connections.read().await" and
\* the return of get_health.
HealthReport(t) ==
    /\ tasks[t].pc = "get_health"
    /\ read_lock_available(connections_lock)
    /\ tasks' = [tasks EXCEPT ![t] = [pc |-> "idle", loaded |-> 0,
                                      reported |-> <<active_connections>>]]
    /\ UNCHANGED <<active_connections, connections_lock, started, opened, closed, held>>
    /\ UNCHANGED outside_connections

ConnectionOpened == \E t \in Tasks : AcquireWrite(t, "connection_opened")

ConnectionClosed == \E t \in Tasks : AcquireWrite(t, "connection_closed")

CounterLoaded == \E t \in Tasks : Load(t)

OpenReturns == \E t \in Tasks : OpenStore(t)

CloseReturns == \E t \in Tasks : CloseStore(t)

GetHealth == \E t \in Tasks : HealthClone(t)

GetHealthReturns == \E t \in Tasks : HealthReport(t)

ConnectionNext ==
    \/ ConnectionOpened
    \/ ConnectionClosed
    \/ CounterLoaded
    \/ OpenReturns
    \/ CloseReturns
    \/ GetHealth
    \/ GetHealthReturns

ConnectionSpec == ConnectionInit /\ [][ConnectionNext]_vars

\* --------------------------------------------------------------- claims

\* handle_request has returned the response of `request`.
Answered == pc = "done"

\* The methods behind the initialization gate.
GatedMethods == {m \in StandardMethods : requires_initialization(m)}

\* A context the gate turns away.
Uninitialized(ctx) ==
    ~ctx.authenticated /\ ~ctx.system /\ "initialized" \notin ctx.capabilities

\* The response is the not-initialized error.
NotInitializedError(resp) ==
    /\ resp.error # NoValue
    /\ resp.error.code = -32002
    /\ resp.error.message = NotInitializedMessage

\* The methods whose handler needs well-formed params.
ParamsMethods == {"initialize", "tools/call", "resources/read", "prompts/get", "batch"}

\* The request was handled by the batch engine.
EngineRan == batch # NoValue

\* C1: the response handle_request returns carries the id of the request, on
\* the validation-error path, the handler-error path and the success path.
C1_ResponseIdIsRequestId ==
    Answered => response.id = request.id

\* C1 witness: a request with an id was rejected by validate_request.
C1_Witness ==
    /\ Answered
    /\ request.id = "1"
    /\ NotInitializedError(response)

\* C2: every response has exactly one of result and error; a handler that
\* succeeds with no value (the initialized notifications) yields result null
\* and no error.
C2_ResultXorError ==
    Answered =>
        /\ (response.result = NoValue) # (response.error = NoValue)
        /\ request.method \in {"initialized", "notifications/initialized"} =>
              (response.result = JsonNull /\ response.error = NoValue)

\* C2 witness: an initialized notification was answered with result null.
C2_Witness ==
    /\ Answered
    /\ request.method = "initialized"
    /\ response.result = JsonNull
    /\ response.error = NoValue

\* Some collaborator operation invoked for the request answered with an error.
SomeCallFailed == \E k \in 1..Len(calls) : calls[k].answer = "err"

\* The number of collaborator operations that answered with an error.
RECURSIVE CountFailedCalls(_)
CountFailedCalls(cs) ==
    IF cs = <<>> THEN 0
    ELSE (IF Head(cs).answer = "err" THEN 1 ELSE 0) + CountFailedCalls(Tail(cs))

\* A failure met while handling `request` outside the batch engine: the gate,
\* the params, a registry the server does not expose, a disabled or oversized
\* batch, or a collaborator's error.
RequestFailed ==
    \/ request.method \in GatedMethods /\ Uninitialized(conn)
    \/ request.method \in ParamsMethods /\ ~ParamsParse(request.params)
    \/ request.method \in {"resources/list", "resources/read"} /\ ~state.resources
    \/ request.method \in {"prompts/list", "prompts/get"} /\ ~state.prompts
    \/ request.method = "batch" /\ ~config.enable_batch
    \/ /\ request.method = "batch"
       /\ ParamsParse(request.params)
       /\ Len(request.params.requests) > config.max_batch_size
    \/ SomeCallFailed

\* C3: handle_request never fails outward: every handled request has a
\* response, every failure of validation, params parsing, a registry, the
\* server state or a custom handler is an error object in it, and inside a
\* batch every failed collaborator call is an error object of an item.
C3_FailuresBecomeErrorObjects ==
    /\ Answered => response # NoValue
    /\ (Answered /\ ~EngineRan /\ RequestFailed) =>
          (response.error # NoValue /\ response.result = NoValue)
    /\ (Answered /\ ~EngineRan /\ ~RequestFailed) => response.error = NoValue
    /\ EngineRan => CountFailedCalls(calls) <= CountErrors(results)

\* C3 witness: a custom handler failed and the response carries its error.
C3_Witness ==
    /\ Answered
    /\ request.method \in CustomMethods
    /\ SomeCallFailed
    /\ response.error # NoValue

\* C4 as claimed: a request for a gated method from a context that is neither
\* system nor carrying "initialized" is answered -32002 and invokes nothing.
C4_Original ==
    (/\ Answered
     /\ request.method \in GatedMethods
     /\ ~conn.system
     /\ "initialized" \notin conn.capabilities) =>
        (NotInitializedError(response) /\ calls = <<>> /\ ~EngineRan)

\* C4 amended: a request for a gated method from a context that is not
\* authenticated, not system and without "initialized" is answered -32002
\* "Client must call initialize first", and no registry, server-state or
\* batch operation is invoked for it; nor does the engine ever run for it.
C4_GateRejectsUninitialized ==
    /\ (Answered /\ request.method \in GatedMethods /\ Uninitialized(conn)) =>
          /\ NotInitializedError(response)
          /\ response.result = NoValue
          /\ calls = <<>>
          /\ ~EngineRan
          /\ progress = <<>>
    /\ (pc = "batch") => ~Uninitialized(conn)

\* C4 witness: an uninitialized client asked for tools/call and was rejected.
C4_Witness ==
    /\ Answered
    /\ request.method = "tools/call"
    /\ Uninitialized(conn)
    /\ NotInitializedError(response)

\* C5: the gate rejects nothing else: never the not-initialized error for
\* initialize, initialized, notifications/initialized or ping, nor for a
\* context that is system or carries "initialized"; ping is answered pong.
C5_GateRejectsNothingElse ==
    Answered =>
        /\ (\/ request.method \notin GatedMethods
            \/ conn.system
            \/ "initialized" \in conn.capabilities) => ~NotInitializedError(response)
        /\ request.method = "ping" =>
              (response.result = Pong /\ response.error = NoValue)

\* C5 witness: an uninitialized client's ping was answered pong.
C5_Witness ==
    /\ Answered
    /\ request.method = "ping"
    /\ Uninitialized(conn)
    /\ response.result = Pong

BatchPastGate == request.method = "batch" /\ ~Uninitialized(conn)

\* C7: with config.enable_batch false, every batch request that passes the
\* gate is answered "Batch operations are not enabled", whatever its params;
\* no sub-request is dispatched and no progress update is reported.
C7_BatchDisabled ==
    /\ (Answered /\ BatchPastGate /\ ~config.enable_batch) =>
          /\ response.error # NoValue
          /\ response.error.message = BatchDisabledMessage
          /\ response.result = NoValue
    /\ ~config.enable_batch =>
          /\ pc # "batch"
          /\ ~EngineRan
          /\ dispatched = <<>>
          /\ progress = <<>>
          /\ results = <<>>

\* C7 witness: a batch request without well-formed params was refused as
\* disabled, not for its params.
C7_Witness ==
    /\ Answered
    /\ BatchPastGate
    /\ ~config.enable_batch
    /\ ~ParamsParse(request.params)
    /\ response.error # NoValue
    /\ response.error.message = BatchDisabledMessage

\* A batch request that reaches handle_batch_request.
BatchSubmitted ==
    BatchPastGate /\ config.enable_batch /\ ParamsParse(request.params)

\* C8: a batch of more than config.max_batch_size sub-requests is rejected
\* with a validation error before any progress update or dispatch; a batch of
\* at most max_batch_size, exactly max_batch_size included, is not rejected.
C8_BatchSizeCheck ==
    /\ (Answered /\ BatchSubmitted /\
        Len(request.params.requests) > config.max_batch_size) =>
          /\ response.error # NoValue
          /\ response.error.message = BatchTooLargeError.message
          /\ response.result = NoValue
          /\ ~EngineRan
          /\ progress = <<>>
          /\ dispatched = <<>>
          /\ results = <<>>
          /\ calls = <<>>
    /\ (Answered /\ BatchSubmitted /\
        Len(request.params.requests) <= config.max_batch_size) =>
          /\ EngineRan
          /\ response.error = NoValue
          /\ response.result.stats.total_requests = Len(request.params.requests)
    /\ pc = "batch" => Len(batch.items) <= config.max_batch_size

\* C8 witness: a batch one sub-request over the maximum was rejected.
C8_Witness ==
    /\ Answered
    /\ BatchSubmitted
    /\ Len(request.params.requests) = config.max_batch_size + 1
    /\ response.error # NoValue
    /\ response.error.message = BatchTooLargeError.message

\* The positions of the running batch's sub-requests that are batches.
NestedPositions == {i \in 1..Len(batch.items) : batch.items[i].method = "batch"}

\* The positions of results that hold the item of sub-request i.
ItemsOf(i) == {k \in 1..Len(results) : results[k].id = batch.items[i].id}

DispatchedPositions == {dispatched[k] : k \in 1..Len(dispatched)}

\* The item a rejected nested batch must carry.
IsNestedRejection(item) ==
    /\ item.error # NoValue
    /\ item.error.code = -32600
    /\ item.error.message = NestedBatchMessage
    /\ item.result = NoValue

\* C9 as claimed: in a finished batch a nested batch sub-request was not
\* dispatched, has an item with the -32600 rejection, is counted in failed,
\* and every sub-request of the batch was executed and has an item.
C9_Original ==
    (Answered /\ EngineRan /\ NestedPositions # {}) =>
        /\ NestedPositions \cap DispatchedPositions = {}
        /\ \A i \in NestedPositions :
              \E k \in ItemsOf(i) : IsNestedRejection(results[k])
        /\ response.result.stats.failed_requests >= Cardinality(NestedPositions)
        /\ \A i \in 1..Len(batch.items) :
              /\ ItemsOf(i) # {}
              /\ i \notin NestedPositions => i \in DispatchedPositions

\* The sequential loop was left by the stop_on_error break.
HaltedByError == EngineRan /\ batch.mode = "Sequential" /\ stopped

\* C9 amended: a nested batch sub-request is never passed to handle_request;
\* the item it gets carries -32600 "Nested batch requests are not allowed" and
\* no result and is counted in failed; it never stops the batch, and every
\* sub-request is executed and present in results unless a Sequential batch
\* with stop_on_error was halted by the error of a dispatched sub-request.
C9_NestedBatchRejected ==
    EngineRan =>
        /\ NestedPositions \cap DispatchedPositions = {}
        /\ \A i \in NestedPositions :
              \A k \in ItemsOf(i) : IsNestedRejection(results[k])
        /\ Answered =>
              response.result.stats.failed_requests >=
                  Cardinality({i \in NestedPositions : ItemsOf(i) # {}})
        /\ (Answered /\ ~HaltedByError) =>
              \A i \in 1..Len(batch.items) :
                  /\ Cardinality(ItemsOf(i)) = 1
                  /\ i \notin NestedPositions => i \in DispatchedPositions
        /\ stopped =>
              /\ stop_on_error(batch.security)
              /\ results # <<>>
              /\ results[Len(results)].error # NoValue
              /\ \A i \in NestedPositions : Len(results) \notin ItemsOf(i)

\* C9 witness: under stop_on_error a Sequential batch rejected its first
\* sub-request as a nested batch and still executed the second.
C9_Witness ==
    /\ Answered
    /\ EngineRan
    /\ batch.mode = "Sequential"
    /\ stop_on_error(batch.security)
    /\ Len(batch.items) = 2
    /\ 1 \in NestedPositions
    /\ 2 \in DispatchedPositions
    /\ Len(results) = 2
    /\ IsNestedRejection(results[1])

\* C10 as claimed: the results of a finished Parallel batch list the
\* sub-requests' ids in input order, whatever the completion order.
C10_ParallelPreservesOrder ==
    (Answered /\ EngineRan /\ batch.mode = "Parallel") =>
        [k \in 1..Len(results) |-> results[k].id] =
            [k \in 1..Len(batch.items) |-> batch.items[k].id]

\* C11: in a Parallel batch the sub-request futures in progress (those
\* dispatched to handle_request and not yet completed among them) never number
\* more than min(max_parallel or 10 when absent, number of sub-requests).
C11_ParallelInFlightBound ==
    (EngineRan /\ batch.mode = "Parallel") =>
        LET cap == IF batch.max_parallel = <<>> THEN 10 ELSE batch.max_parallel[1]
            n == Len(batch.items)
        IN /\ Cardinality(inflight) <= (IF cap <= n THEN cap ELSE n)
           /\ Cardinality(DispatchedPositions) - Len(results) <= (IF cap <= n THEN cap ELSE n)

\* C11 witness: with max_parallel 1 and two sub-requests, the first is in
\* flight and the second has not been taken from the stream.
C11_Witness ==
    /\ pc = "batch"
    /\ batch.mode = "Parallel"
    /\ batch.max_parallel = <<1>>
    /\ Len(batch.items) = 2
    /\ inflight = {1}
    /\ dispatched = <<1>>
    /\ pulled = 1

\* C12: in a Parallel batch no sub-request ever has two items in results, and
\* once the BatchResult is returned every sub-request has exactly one: the
\* ids of results are the ids of the sub-requests, each once, whatever the
\* order in which the futures completed.
C12_ParallelResultsComplete ==
    (EngineRan /\ batch.mode = "Parallel") =>
        /\ \A i \in 1..Len(batch.items) : Cardinality(ItemsOf(i)) <= 1
        /\ \A k \in 1..Len(results) :
              \E i \in 1..Len(batch.items) : results[k].id = batch.items[i].id
        /\ Answered =>
              /\ Len(results) = Len(batch.items)
              /\ \A i \in 1..Len(batch.items) : Cardinality(ItemsOf(i)) = 1
              /\ response.result.results = results

\* C12 witness: both sub-requests of a Parallel batch have their item, the
\* second one's first.
C12_Witness ==
    /\ Answered
    /\ EngineRan
    /\ batch.mode = "Parallel"
    /\ Len(batch.items) = 2
    /\ Len(results) = 2
    /\ results[1].id = batch.items[2].id
    /\ results[2].id = batch.items[1].id

\* C13: in a Sequential batch at most one sub-request is in flight, the
\* sub-requests are dispatched in input order, sub-request i is dispatched
\* only when every sub-request before it has its item, and results lists
\* the processed sub-requests in input order.
C13_SequentialInOrder ==
    (EngineRan /\ batch.mode = "Sequential") =>
        /\ Cardinality(inflight) <= 1
        /\ \A k \in 1..(Len(dispatched) - 1) : dispatched[k] < dispatched[k + 1]
        /\ \A i \in DispatchedPositions : Len(results) >= i - 1
        /\ \A i \in inflight : Len(results) = i - 1 /\ dispatched[Len(dispatched)] = i
        /\ Len(results) <= Len(batch.items)
        /\ \A k \in 1..Len(results) : results[k].id = batch.items[k].id
        /\ Answered => response.result.results = results

\* C13 witness: the second sub-request of a Sequential batch is in flight and
\* the first one's item is in results.
C13_Witness ==
    /\ pc = "batch"
    /\ batch.mode = "Sequential"
    /\ dispatched = <<1, 2>>
    /\ inflight = {2}
    /\ Len(results) = 1
    /\ results[1].id = batch.items[1].id

\* The batch's context carries client metadata stop_on_error = "true".
StopOnErrorSet == batch.security.stop_on_error = "true"

\* C14 as claimed: in a Sequential batch with stop_on_error "true", the first
\* item of results that carries an error is the last one, and no sub-request
\* after it is taken.
C14_Original ==
    (EngineRan /\ batch.mode = "Sequential" /\ StopOnErrorSet) =>
        \A k \in 1..Len(results) :
            results[k].error # NoValue => (Len(results) = k /\ pulled = k)

\* C14 amended: in a Sequential batch with stop_on_error "true", processing
\* halts after the first dispatched sub-request whose response carries an
\* error: its item is the last of results, no later sub-request is taken or
\* dispatched, the later ones have no item and no item is marked skipped.
\* The item of a rejected nested batch does not halt the loop, and neither
\* does any error when stop_on_error is another string or absent.
C14_StopOnError ==
    (EngineRan /\ batch.mode = "Sequential") =>
        /\ StopOnErrorSet =>
              \A k \in 1..Len(results) :
                  (results[k].error # NoValue /\ k \notin NestedPositions) =>
                      /\ stopped
                      /\ Len(results) = k
                      /\ pulled = k
                      /\ \A i \in DispatchedPositions : i <= k
                      /\ \A i \in (k + 1)..Len(batch.items) : ItemsOf(i) = {}
        /\ stopped =>
              /\ StopOnErrorSet
              /\ results # <<>>
              /\ results[Len(results)].error # NoValue
              /\ Len(results) \notin NestedPositions
        /\ \A k \in 1..Len(results) : ~results[k].skipped
        /\ Answered =>
              /\ response.result.results = results
              /\ response.result.stats.skipped_requests = 0
              /\ ~stopped => Len(results) = Len(batch.items)

\* C14 witness: the first of two sub-requests failed under stop_on_error
\* "true" and the batch returned with its item alone.
C14_Witness ==
    /\ Answered
    /\ EngineRan
    /\ batch.mode = "Sequential"
    /\ StopOnErrorSet
    /\ Len(batch.items) = 2
    /\ dispatched = <<1>>
    /\ Len(results) = 1
    /\ results[1].error # NoValue
    /\ stopped

\* The loop of the batch's executor can be left early by a failing sub-request:
\* the batch is Sequential and its context has stop_on_error "true".
MayStopOnError == batch.mode = "Sequential" /\ StopOnErrorSet

\* C15: unless the batch is Sequential with stop_on_error "true", a failing
\* sub-request never stops it: the returned BatchResult has one item for each
\* of the n sub-requests and stats.total_requests = n, errors included, in
\* Sequential mode without stop_on_error and in Parallel mode with or without.
C15_ErrorsDoNotStopBatch ==
    (EngineRan /\ ~MayStopOnError) =>
        /\ ~stopped
        /\ Answered =>
              /\ Len(response.result.results) = Len(request.params.requests)
              /\ response.result.stats.total_requests = Len(request.params.requests)
              /\ \A i \in 1..Len(batch.items) : Cardinality(ItemsOf(i)) = 1
              /\ response.result.stats.failed_requests = CountErrors(results)

\* C15 witness: a Parallel batch with stop_on_error "true" whose first
\* completed sub-request failed returned an item for both sub-requests.
C15_Witness ==
    /\ Answered
    /\ EngineRan
    /\ batch.mode = "Parallel"
    /\ StopOnErrorSet
    /\ Len(batch.items) = 2
    /\ Len(results) = 2
    /\ results[1].error # NoValue
    /\ results[2].error = NoValue

\* C16 as claimed: in every returned BatchResult successful + failed + skipped
\* is total, the number of submitted sub-requests, in every mode and also
\* when a Sequential batch was stopped early by stop_on_error.
C16_StatsSumToTotal ==
    (Answered /\ EngineRan) =>
        LET stats == response.result.stats IN
        /\ stats.total_requests = Len(request.params.requests)
        /\ stats.successful_requests + stats.failed_requests + stats.skipped_requests
              = stats.total_requests

\* The positions of the progress stream that hold an update of the phase.
UpdatesOf(phase) == {k \in 1..Len(progress) : progress[k].phase = phase}

\* C17: for every batch that passes the size check the progress stream is
\* bracketed: its first update, and no other, is "started" with total = the
\* number of sub-requests, reported before any sub-request is dispatched or
\* has an item; "completed" is reported exactly once, as the last update,
\* when and only when the BatchResult is returned; all updates between the
\* two are "progress" updates.
C17_ProgressBracketed ==
    /\ EngineRan =>
          /\ progress # <<>>
          /\ progress[1] = [phase |-> "started", n |-> Len(request.params.requests)]
          /\ UpdatesOf("started") = {1}
          /\ UpdatesOf("completed") = IF Answered THEN {Len(progress)} ELSE {}
          /\ \A k \in 2..Len(progress) :
                progress[k].phase = "progress" \/ (Answered /\ k = Len(progress))
          /\ Answered => response.result.of = "BatchResult"
    /\ ~EngineRan => (progress = <<>> /\ dispatched = <<>> /\ results = <<>>)

\* C17 witness: a batch of two sub-requests reported started with total 2,
\* two progress updates and completed, in this order.
C17_Witness ==
    /\ Answered
    /\ EngineRan
    /\ Len(progress) = 4
    /\ progress[1] = [phase |-> "started", n |-> 2]
    /\ progress[2].phase = "progress"
    /\ progress[3].phase = "progress"
    /\ progress[4].phase = "completed"

\* C18 as claimed: within a batch one "progress" update is reported for every
\* completed sub-request, and the k-th of them reports k, in Sequential mode
\* and in Parallel mode.
C18_ProgressCountsCompletions ==
    EngineRan =>
        /\ Cardinality(UpdatesOf("progress")) = Len(results)
        /\ \A k \in 1..Len(results) :
              progress[k + 1] = [phase |-> "progress", n |-> k]

\* C19 as claimed: once a batch's timeout_ms has passed, no further
\* sub-request is taken or dispatched, every item added to results from then
\* on carries an error, and the batch still ends with the "completed" update.
C19_TimeoutBoundsBatch ==
    [][(pc = "batch" /\ elapsed) =>
          /\ dispatched' = dispatched
          /\ pulled' = pulled
          /\ results' # results => results'[Len(results')].error # NoValue
          /\ pc' = "done" => progress'[Len(progress')].phase = "completed"]_vars

DependencyModes == {"dependency", "priority_dependency"}

\* The BatchParams submitted with execution mode Sequential instead.
AsSequential(params) == [params EXCEPT !.execution_mode = "sequential"]

\* The request being handled asks for one of the dependency modes.
DependencyBatch ==
    /\ EngineRan
    /\ request.params.execution_mode \in DependencyModes

\* C20: a batch submitted with mode Dependency or PriorityDependency runs
\* exactly as the same batch submitted with mode Sequential: the engine works
\* on the very BatchContext the Sequential submission gives, every step it
\* takes is a step of the sequential executor (in-order dispatch, one in
\* flight, the stop_on_error break), and the BatchResult is the one computed
\* from that context and the items, with the same progress updates.
C20_DependencyModesAreSequential ==
    /\ [](DependencyBatch =>
            /\ batch = BatchContext(AsSequential(request.params), conn)
            /\ batch.mode = "Sequential"
            /\ Cardinality(inflight) <= 1
            /\ \A k \in 1..Len(results) :
                  /\ results[k].id = batch.items[k].id
                  /\ progress[k + 1] = [phase |-> "progress", n |-> k]
            /\ stopped =>
                  (StopOnErrorSet /\ results[Len(results)].error # NoValue)
            /\ Answered =>
                  response.result =
                      BatchResult(BatchContext(AsSequential(request.params), conn),
                                  results))
    /\ [][(pc = "batch" /\ request.params.execution_mode \in DependencyModes) =>
             \/ SequentialReject
             \/ SequentialDispatch
             \/ SequentialFutureCompletes
             \/ BatchFinish
             \/ TimeoutElapses]_vars

\* C20 witness: a dependency-mode batch of two sub-requests was stopped by
\* the error of its first one under stop_on_error "true".
C20_Witness ==
    /\ Answered
    /\ DependencyBatch
    /\ request.params.execution_mode = "dependency"
    /\ Len(batch.items) = 2
    /\ StopOnErrorSet
    /\ stopped
    /\ Len(results) = 1
    /\ progress = <<[phase |-> "started", n |-> 2],
                    [phase |-> "progress", n |-> 1],
                    [phase |-> "completed", n |-> 0]>>

\* C23: template substitution is idempotent: substituting the same argument
\* map into the output of a substitution gives that output again, and
\* substituting the same map into the same template twice gives the same
\* output.
C23_SubstitutionIdempotent ==
    /\ reapplied # NoValue => reapplied.value = output.value
    /\ repeated # NoValue => repeated.value = output.value

\* The number of places of a text at which a pattern starts.
Occurrences(pattern, text) ==
    Cardinality({i \in 1..Len(text) :
                    /\ i + Len(pattern) - 1 <= Len(text)
                    /\ SubSeq(text, i, i + Len(pattern) - 1) = pattern})

\* The map without the entry of a key, and the order it then yields.
Without(m, key) == [k \in DOMAIN m \ {key} |-> m[k]]

OrderWithout(order, key) == SelectSeq(order, LAMBDA k : k # key)

\* What stands between the double braces of the templates.
PlaceholderNames == Keys \cup {"#if a"}

\* C26 (first part): a supplied argument whose placeholder does not occur in
\* the template is ignored: the output is what it is without that argument.
C26_UnreferencedIgnored ==
    output # NoValue =>
        \A key \in DOMAIN arguments :
            Occurrences(placeholder(key), template) = 0 =>
                output.value =
                    substitute(template, Without(arguments, key),
                               OrderWithout(iteration, key)).value

\* C26 (second part): the placeholders of names that are not supplied stay in
\* the output, and with an empty argument map the output is the template.
C26_UnsuppliedLeftIntact ==
    output # NoValue =>
        /\ \A name \in PlaceholderNames \ DOMAIN arguments :
              Occurrences(placeholder(name), output.value)
                  >= Occurrences(placeholder(name), template)
        /\ DOMAIN arguments = {} => output.value = template

\* C26: substitution touches nothing but the placeholders of supplied names.
C26_SubstitutionFrame == C26_UnreferencedIgnored /\ C26_UnsuppliedLeftIntact

\* A get_prompt_with_args call on a prompt of the registry has returned.
RenderCall ==
    /\ prompt_call # NoValue
    /\ prompt_call.op = "get_prompt_with_args"
    /\ prompt_call.request.name \in DOMAIN prompts

\* The arguments of the call, absent arguments being the empty map.
SuppliedNames ==
    IF prompt_call.request.arguments = None THEN {}
    ELSE DOMAIN prompt_call.request.arguments[1]

\* The names of the required parameters the call leaves out.
AbsentRequired ==
    LET parameters == prompts[prompt_call.request.name].parameters
    IN  {parameters[i].name : i \in {j \in DOMAIN parameters :
                                        /\ parameters[j].required
                                        /\ parameters[j].name \notin SuppliedNames}}

\* C21: get_prompt_with_args on an existing prompt fails with a Validation
\* error that names an absent parameter whenever a declared required
\* parameter is absent from the arguments (absent arguments are the empty
\* map), returning no rendered message; it succeeds when every required
\* parameter is supplied.
C21_RequiredParametersValidated ==
    RenderCall =>
        IF AbsentRequired # {}
        THEN /\ ~prompt_result.ok
             /\ prompt_result.value = NoValue
             /\ prompt_result.error.kind = "Validation"
             /\ \E name \in AbsentRequired :
                   prompt_result.error.message =
                       <<"Required parameter '", name, "' not provided">>
        ELSE prompt_result.ok

\* A call without arguments on a prompt with two required parameters is
\* rejected.
C21_Witness ==
    /\ RenderCall
    /\ prompt_call.request.arguments = None
    /\ Cardinality(AbsentRequired) = 2
    /\ ~prompt_result.ok
    /\ prompt_result.error.kind = "Validation"

\* The stored prompt a returned get_prompt_with_args call rendered.
Stored == prompts[prompt_call.request.name]

\* A get_prompt_with_args call has returned a rendering.
Rendered == RenderCall /\ prompt_result.ok

\* What substituting the arguments of the call into a text gives.
Substituted(text) ==
    substitute(text, unwrap_or_default(prompt_call.request.arguments),
               prompt_call.order).value

\* C24: rendering changes only text: as many messages as the stored prompt
\* has, in the same order with the same roles; a Text message stays Text; an
\* EmbeddedResource message keeps its resource (uri, mime_type, annotation)
\* as stored and has text exactly when the stored message has; the texts are
\* the stored texts with the arguments substituted.
C24_RenderingChangesOnlyText ==
    Rendered =>
        /\ Len(prompt_result.value.messages) = Len(Stored.messages)
        /\ \A i \in 1..Len(Stored.messages) :
              LET stored == Stored.messages[i]
                  rendered == prompt_result.value.messages[i]
              IN  /\ rendered.role = stored.role
                  /\ rendered.content.type = stored.content.type
                  /\ stored.content.type = "Text" =>
                        rendered.content.text = Substituted(stored.content.text)
                  /\ stored.content.type = "EmbeddedResource" =>
                        /\ rendered.content.resource.uri = stored.content.resource.uri
                        /\ rendered.content.resource.mime_type
                               = stored.content.resource.mime_type
                        /\ rendered.content.resource.annotation
                               = stored.content.resource.annotation
                        /\ Len(rendered.content.text) = Len(stored.content.text)
                        /\ stored.content.text # None =>
                              rendered.content.text[1]
                                  = Substituted(stored.content.text[1])

\* A rendering with the argument a supplied, of a prompt whose embedded
\* resource has the placeholder of a in its uri and in its annotation, and
\* whose text message was changed by the substitution.
C24_Witness ==
    /\ Rendered
    /\ "a" \in SuppliedNames
    /\ \E i \in 1..Len(Stored.messages) :
          /\ Stored.messages[i].content.type = "EmbeddedResource"
          /\ Occurrences(placeholder("a"), Stored.messages[i].content.resource.uri) > 0
          /\ Stored.messages[i].content.resource.annotation # None
          /\ prompt_result.value.messages[i].content.resource.uri = PlaceholderUri
    /\ \E i \in 1..Len(Stored.messages) :
          /\ Stored.messages[i].content.type = "Text"
          /\ prompt_result.value.messages[i].content.text
                 # Stored.messages[i].content.text

\* C25: the description get_prompt_with_args returns is the stored
\* description with the arguments substituted, by the substitution the
\* messages get, and the returned name is the requested name.
C25_DescriptionSubstituted ==
    Rendered =>
        /\ prompt_result.value.description = Substituted(Stored.description)
        /\ prompt_result.value.name = prompt_call.request.name

\* A rendering whose description had a placeholder of a supplied argument
\* and is returned without it.
C25_Witness ==
    /\ Rendered
    /\ \E key \in SuppliedNames :
          /\ Occurrences(placeholder(key), Stored.description) > 0
          /\ Occurrences(placeholder(key), prompt_result.value.description) = 0
    /\ prompt_result.value.description # Stored.description

\* The name a returned get_prompt_with_args or validate_prompt_parameters
\* call asked for is not in the registry.
LookupMiss ==
    /\ prompt_call # NoValue
    /\ \/ /\ prompt_call.op = "get_prompt_with_args"
          /\ prompt_call.request.name \notin DOMAIN prompts
       \/ /\ prompt_call.op = "validate_prompt_parameters"
          /\ prompt_call.name \notin DOMAIN prompts

\* C27: get_prompt_with_args and validate_prompt_parameters for a name that
\* is not in the registry fail with the prompt-not-found kind of error, not
\* with the kind of a malformed URI or unknown scheme.
C27_MissingPromptIsPromptNotFound ==
    LookupMiss =>
        /\ ~prompt_result.ok
        /\ prompt_result.error.kind = "PromptNotFound"

\* C30: after any sequence of add_prompt, add_workflow_prompt and
\* add_code_analysis_prompt calls the registry holds one prompt per name,
\* under its own name: list_prompts returns no two prompts of the same name,
\* and get_prompt(name) returns the prompt most recently added under the
\* name (none when nothing was added under it).
C30_OnePromptPerName ==
    /\ \A name \in DOMAIN prompts : prompts[name].name = name
    /\ (prompt_call # NoValue /\ prompt_call.op = "list_prompts") =>
          /\ prompt_result.ok
          /\ Len(prompt_result.value) = Cardinality(DOMAIN added)
          /\ \A i, j \in 1..Len(prompt_result.value) :
                prompt_result.value[i].name = prompt_result.value[j].name
                    => i = j
    /\ (prompt_call # NoValue /\ prompt_call.op = "get_prompt") =>
          /\ prompt_result.ok
          /\ prompt_result.value =
                 IF prompt_call.name \in DOMAIN added
                 THEN Some(added[prompt_call.name].prompt)
                 ELSE None

\* get_prompt has returned the prompt of a name that was added more than
\* once, while another name is registered too.
C30_Witness ==
    /\ prompt_call # NoValue
    /\ prompt_call.op = "get_prompt"
    /\ prompt_call.name \in DOMAIN added
    /\ added[prompt_call.name].replaced
    /\ Cardinality(DOMAIN prompts) = 2
    /\ prompt_result.value = Some(added[prompt_call.name].prompt)

Braces == {"{", "}"}

\* A text without a brace.
BraceFree(text) == \A i \in 1..Len(text) : text[i] \notin Braces

\* A text all of whose braces belong to complete placeholders: "{{", a
\* brace-free name, "}}".
RECURSIVE WellFormed(_)
WellFormed(text) ==
    IF text = <<>> THEN TRUE
    ELSE IF Head(text) \notin Braces THEN WellFormed(Tail(text))
    ELSE /\ Len(text) >= 5
         /\ text[1] = "{" /\ text[2] = "{"
         /\ text[3] \notin Braces
         /\ text[4] = "}" /\ text[5] = "}"
         /\ WellFormed(SubSeq(text, 6, Len(text)))

\* The text of a message: of a Text, or of an EmbeddedResource that has one.
MessageText(message) ==
    IF message.content.type = "Text" THEN Some(message.content.text)
    ELSE message.content.text

\* The values of the arguments of the call are rendered without a brace.
SuppliedBraceFree ==
    \A key \in SuppliedNames :
        BraceFree(replacement(prompt_call.request.arguments[1][key]))

\* No placeholder of a supplied argument is in the text.
NoSuppliedPlaceholder(text) ==
    \A key \in SuppliedNames : Occurrences(placeholder(key), text) = 0

\* C22 as stated: after a get_prompt_with_args with all required arguments
\* provided no rendered message text has the placeholder of a supplied
\* argument in it, whatever the templates and the values.
C22_Original ==
    Rendered =>
        \A i \in 1..Len(prompt_result.value.messages) :
            LET text == MessageText(prompt_result.value.messages[i])
            IN  text # None => NoSuppliedPlaceholder(text[1])

\* C22: after a get_prompt_with_args with all required arguments provided,
\* supplied with values that are rendered without a brace, the rendering of
\* every message text whose braces all belong to complete placeholders has
\* no placeholder of a supplied argument in it.
C22_NoSuppliedPlaceholderLeft ==
    (Rendered /\ SuppliedBraceFree) =>
        \A i \in 1..Len(Stored.messages) :
            LET stored == MessageText(Stored.messages[i])
                text == MessageText(prompt_result.value.messages[i])
            IN  (stored # None /\ WellFormed(stored[1])) =>
                    NoSuppliedPlaceholder(text[1])

\* A rendering with brace-free values of a well-formed message text that
\* has the placeholder of a supplied argument twice and that of another
\* supplied argument too.
C22_Witness ==
    /\ Rendered
    /\ SuppliedBraceFree
    /\ SuppliedNames = Keys
    /\ \E i \in 1..Len(Stored.messages) :
          /\ MessageText(Stored.messages[i]) # None
          /\ WellFormed(MessageText(Stored.messages[i])[1])
          /\ Occurrences(placeholder("a"), MessageText(Stored.messages[i])[1]) = 2
          /\ Occurrences(placeholder("b"), MessageText(Stored.messages[i])[1]) = 1
          /\ NoSuppliedPlaceholder(MessageText(prompt_result.value.messages[i])[1])

\* The same of substitute alone, over every template of the template
\* engine's run.
SubstituteClearsSupplied ==
    (/\ output # NoValue
     /\ WellFormed(template)
     /\ \A key \in DOMAIN arguments : BraceFree(replacement(arguments[key])))
        => \A key \in DOMAIN arguments :
              Occurrences(placeholder(key), output.value) = 0

\* A get_resource call of the multi-scheme registry has returned.
GetResourceCall ==
    /\ resource_call # NoValue
    /\ resource_call.op = "get_resource"

\* The prefixes of a URI that "://" follows.
SchemePrefixes(uri) ==
    {n \in 0..Len(uri) :
        /\ n + 3 <= Len(uri)
        /\ uri[n + 1] = ":" /\ uri[n + 2] = "/" /\ uri[n + 3] = "/"}

\* scheme(u): what stands before the first "://".
SchemeBeforeFirstSeparator(uri) ==
    SubSeq(uri, 1, CHOOSE n \in SchemePrefixes(uri) :
                       \A k \in SchemePrefixes(uri) : n <= k)

\* C28: get_resource(u) of the multi-scheme registry returns what the child
\* registered under scheme(u), the text before the first "://", returns for
\* u, and calls no other child; when u has no "://" or no child is
\* registered for its scheme it fails with InvalidResource, calling no child.
C28_GetResourceRoutesByScheme ==
    GetResourceCall =>
        LET uri == resource_call.uri
        IN  IF /\ SchemePrefixes(uri) # {}
               /\ SchemeBeforeFirstSeparator(uri) \in DOMAIN registries
            THEN /\ resource_result =
                        child_get_resource(
                            registries[SchemeBeforeFirstSeparator(uri)], uri)
                 /\ consulted = <<SchemeBeforeFirstSeparator(uri)>>
            ELSE /\ ~resource_result.ok
                 /\ resource_result.error.kind = "InvalidResource"
                 /\ consulted = <<>>

\* A URI with two separators was asked for while a child is registered for
\* each scheme, other children hold a resource for the URI too, and the
\* resource of the child of the first scheme came back.
C28_Witness ==
    /\ GetResourceCall
    /\ resource_call.uri = NestedUri
    /\ DOMAIN registries = Schemes
    /\ \A scheme \in Schemes : NestedUri \in registries[scheme].resources
    /\ registries[<<"mem">>].name # registries[<<"file">>].name
    /\ registries[<<"mem">>].name # registries[<<"mem", ":", "/", "/", "file">>].name
    /\ resource_result = Ok(Resource(NestedUri, registries[<<"mem">>].name))

\* An unsubscribe_from_resource call of the multi-scheme registry has
\* returned.
UnsubscribeCall ==
    /\ resource_call # NoValue
    /\ resource_call.op = "unsubscribe_from_resource"

\* The registered children that accept the id of the call.
Accepting ==
    {scheme \in DOMAIN registries :
        child_unsubscribe_from_resource(registries[scheme],
                                        resource_call.subscription_id).ok}

\* C29: unsubscribe_from_resource(id) of the multi-scheme registry tries the
\* children one after the other and succeeds as soon as one accepts the id:
\* the child called last accepts, the ones called before it do not, none is
\* called twice. It fails exactly when no child accepts, after calling every
\* child, with InvalidResource for subscription:<id>; so it does whenever no
\* child is registered.
C29_UnsubscribeTriesChildren ==
    UnsubscribeCall =>
        /\ resource_result.ok <=> Accepting # {}
        /\ \A i, j \in 1..Len(consulted) : consulted[i] = consulted[j] => i = j
        /\ resource_result.ok =>
              /\ consulted # <<>>
              /\ consulted[Len(consulted)] \in Accepting
              /\ \A i \in 1..(Len(consulted) - 1) : consulted[i] \notin Accepting
        /\ ~resource_result.ok =>
              /\ resource_result.error =
                     InvalidResource(
                         <<"subscription:", resource_call.subscription_id>>,
                         "Subscription not found in any registry")
              /\ {consulted[i] : i \in 1..Len(consulted)} = DOMAIN registries
        /\ DOMAIN registries = {} => ~resource_result.ok

\* With three children registered, the first one called rejected the id, the
\* second accepted it and the third was not called.
C29_Witness ==
    /\ UnsubscribeCall
    /\ DOMAIN registries = Schemes
    /\ Len(consulted) = 2
    /\ consulted[1] \notin Accepting
    /\ resource_result.ok

\* Three children are registered, none accepts the id, and the call failed.
C29_WitnessRejected ==
    /\ UnsubscribeCall
    /\ DOMAIN registries = Schemes
    /\ Accepting = {}
    /\ Len(consulted) = 3
    /\ ~resource_result.ok

\* C37: substitution is deterministic: for a given template and argument map
\* substitute returns the same text in whatever order the map's entries are
\* visited, also when a value holds the placeholder of another supplied
\* argument.
C37_SubstitutionOrderIndependent ==
    \A order \in Orders(arguments) :
        output # NoValue =>
            substitute(template, arguments, order).value = output.value

\* The applied concurrency bound of the batch that ran.
AppliedBound ==
    IF batch.mode = "Parallel"
    THEN (LET cap == IF batch.max_parallel = <<>> THEN 10 ELSE batch.max_parallel[1]
          IN  IF cap <= Len(batch.items) THEN cap ELSE Len(batch.items))
    ELSE 1

\* C40: stats.max_parallel_executed of a BatchResult is the concurrency bound
\* that was applied to the batch: min(max_parallel or 10 when absent, number
\* of sub-requests) in Parallel mode and 1 in Sequential mode; the value the
\* batch reports is never smaller than the number of sub-requests in flight
\* at once.
C40_MaxParallelExecutedIsAppliedBound ==
    /\ (Answered /\ EngineRan) =>
          response.result.stats.max_parallel_executed = AppliedBound
    /\ (EngineRan /\ pc = "batch") =>
          Cardinality(inflight) <= BatchResult(batch, results).stats.max_parallel_executed

\* The "completed" update is the last of the progress stream.
CompletedReported ==
    /\ progress # <<>>
    /\ progress[Len(progress)].phase = "completed"

\* C33: every batch that passes the size check terminates: it eventually
\* reports the "completed" update and returns a BatchResult, whatever the
\* request list (the empty one included), max_parallel (0 included) and
\* mode, provided each dispatched sub-request terminates.
C33_BatchTerminates ==
    (pc = "batch") ~> (pc = "done" /\ CompletedReported /\ response.error = NoValue)

\* The batches whose Parallel executor has a positive limit, and the
\* Sequential ones, terminate.
BatchWithPositiveLimitTerminates ==
    (pc = "batch" /\ (batch.mode = "Sequential" \/ parallel_limit(batch) > 0))
        ~> (pc = "done" /\ CompletedReported /\ response.error = NoValue)

\* The params of the request are absent or not of the shape the method needs.
MalformedParams ==
    request.params = NoValue \/ request.params.shape # "valid"

\* C36: a request for initialize, tools/call, resources/read, prompts/get or
\* batch whose params are absent or not of the required shape is answered
\* with an error, and neither a collaborator operation nor the batch engine
\* is invoked for it.
C36_MalformedParamsRejected ==
    (Answered /\ request.method \in ParamsMethods /\ MalformedParams) =>
        /\ response.error # NoValue
        /\ response.result = NoValue
        /\ calls = <<>>
        /\ ~EngineRan

\* A tools/call request with params of the wrong shape passed the
\* initialization gate and was answered with the params error.
C36_Witness ==
    /\ Answered
    /\ request.method = "tools/call"
    /\ request.params = InvalidParams
    /\ ~Uninitialized(conn)
    /\ response.error = JsonRpcError(ParamsError("tools/call", InvalidParams))
    /\ calls = <<>>

\* A batch request without params was answered with an error on a server
\* that has batch enabled, and the engine did not run.
C36_WitnessBatch ==
    /\ Answered
    /\ request.method = "batch"
    /\ request.params = NoValue
    /\ config.enable_batch
    /\ ~Uninitialized(conn)
    /\ response.error # NoValue
    /\ ~EngineRan


\* C34: a request whose method is not a standard method is never stopped by
\* the initialization gate: whatever the security context, handle_custom_method
\* is invoked exactly once, with the method name, the params and the context of
\* the request, and what it answers becomes the response.
C34_CustomMethodsAreDelegated ==
    (Answered /\ request.method \notin StandardMethods) =>
        /\ ~NotInitializedError(response)
        /\ handle_custom_method_arguments(request, conn) =
              [method |-> request.method, params |-> request.params, context |-> conn]
        /\ \E oc \in Outcomes :
              /\ calls = <<Invoked("handle_custom_method", oc)>>
              /\ response = ToResponse(Call("handle_custom_method", oc), request.id)

\* C34 witness: a client that is neither system nor initialized had its
\* custom request delegated and answered with the handler's value.
C34_Witness ==
    /\ Answered
    /\ request.method = "custom/echo"
    /\ Uninitialized(conn)
    /\ calls = <<Invoked("handle_custom_method", "ok")>>
    /\ response.result = Json("handle_custom_method")
    /\ response.error = NoValue


\* How often the sub-request at position i was handed to handle_request.
TimesDispatched(i) == Cardinality({k \in 1..Len(dispatched) : dispatched[k] = i})

\* The sub-requests of the batch that are not themselves batches.
PlainPositions == {i \in 1..Len(batch.items) : ~is_nested_batch(batch.items[i])}

\* The item a standalone request with the method, params and id of the
\* sub-request would be answered with, under the context the batch came with.
StandaloneItems(i) ==
    {ItemOfResponse(batch.items[i],
                    handle_request(JsonRpcRequest(batch.items[i].method, batch.items[i].params, batch.items[i].id), conn, oc).response) :
        oc \in OutcomesOf(batch.items[i].method)}

\* The item of a dispatched sub-request is the standalone answer, with never
\* both result and error, and never skipped.
ItemIsStandaloneAnswer(i) ==
    \A k \in ItemsOf(i) :
        /\ results[k] \in StandaloneItems(i)
        /\ ~(results[k].result # NoValue /\ results[k].error # NoValue)
        /\ results[k].skipped = FALSE

\* C35 as claimed: each non-batch sub-request of a batch is dispatched exactly
\* once and has the item of the standalone request.
C35_Original ==
    (Answered /\ EngineRan) =>
        \A i \in PlainPositions :
            /\ TimesDispatched(i) = 1
            /\ Cardinality(ItemsOf(i)) = 1
            /\ ItemIsStandaloneAnswer(i)

\* C35 amended: a non-batch sub-request is dispatched at most once, through
\* handle_request with the security context of the batch; once dispatched and
\* answered it has exactly one item, the standalone answer, never with both
\* result and error and never skipped; and when the batch returns without a
\* stop_on_error halt every non-batch sub-request was dispatched exactly once.
C35_SubRequestsDispatchedOnce ==
    EngineRan =>
        /\ batch.security = conn
        /\ \A i \in PlainPositions :
              /\ TimesDispatched(i) <= 1
              /\ Cardinality(ItemsOf(i)) <= 1
              /\ ItemsOf(i) # {} => (TimesDispatched(i) = 1 /\ i \notin inflight)
              /\ (TimesDispatched(i) = 1 /\ i \notin inflight) => ItemsOf(i) # {}
              /\ ItemIsStandaloneAnswer(i)
              /\ (Answered /\ ~stopped) =>
                    (TimesDispatched(i) = 1 /\ Cardinality(ItemsOf(i)) = 1)

\* C35 witness: a returned batch of two dispatched sub-requests, one answered
\* with a result and one with the error of its handler.
C35_Witness ==
    /\ Answered
    /\ EngineRan
    /\ ~stopped
    /\ Len(batch.items) = 2
    /\ PlainPositions = {1, 2}
    /\ TimesDispatched(1) = 1
    /\ TimesDispatched(2) = 1
    /\ Len(results) = 2
    /\ \E k \in 1..2 : results[k].result # NoValue /\ results[k].error = NoValue
    /\ \E k \in 1..2 : results[k].result = NoValue /\ results[k].error # NoValue


\* A call of the multi-scheme registry that takes a URI has returned.
UriCall ==
    /\ resource_call # NoValue
    /\ resource_call.op \in {"can_handle_uri", "get_resource", "resource_exists", "subscribe_to_resource"}

\* A child is registered under what stands before the first "://" of the URI.
ChildRegisteredFor(uri) ==
    /\ SchemePrefixes(uri) # {}
    /\ SchemeBeforeFirstSeparator(uri) \in DOMAIN registries

\* What the child registered for the URI answers to the operation.
ChildAnswer(op, uri) ==
    LET child == registries[SchemeBeforeFirstSeparator(uri)] IN
    CASE op = "get_resource" -> child_get_resource(child, uri)
      [] op = "resource_exists" -> child_resource_exists(child, uri)
      [] op = "subscribe_to_resource" -> child_subscribe_to_resource(child, uri)

\* C38: can_handle_uri(u) of the multi-scheme registry is true exactly when a
\* child is registered under the scheme of u, which is exactly when
\* get_resource(u), resource_exists(u) and subscribe_to_resource(u) are
\* delegated to that child instead of failing with InvalidResource; and the
\* child routed to answers true to its own can_handle_uri(u).
C38_CanHandleIffDelegated ==
    UriCall =>
        LET uri == resource_call.uri
            op == resource_call.op
        IN  /\ can_handle_uri(registries, uri) <=> ChildRegisteredFor(uri)
            /\ op = "can_handle_uri" => resource_result = Ok(ChildRegisteredFor(uri))
            /\ (op # "can_handle_uri" /\ can_handle_uri(registries, uri)) =>
                  /\ consulted = <<SchemeBeforeFirstSeparator(uri)>>
                  /\ resource_result = ChildAnswer(op, uri)
            /\ (op # "can_handle_uri" /\ ~can_handle_uri(registries, uri)) =>
                  /\ consulted = <<>>
                  /\ ~resource_result.ok
                  /\ resource_result.error.kind = "InvalidResource"
            /\ can_handle_uri(registries, uri) =>
                  child_can_handle_uri(registries[SchemeBeforeFirstSeparator(uri)], uri)

\* C38 witness: with children for "mem" and for "mem://file", the URI
\* mem://file://a is one the registry can handle, through the child of "mem".
C38_Witness ==
    /\ resource_call # NoValue
    /\ resource_call.op = "can_handle_uri"
    /\ resource_call.uri = NestedUri
    /\ DOMAIN registries = {<<"mem">>, <<"mem", ":", "/", "/", "file">>}
    /\ resource_result = Ok(TRUE)
    /\ child_can_handle_uri(registries[<<"mem">>], NestedUri)

\* C38 witness: subscribing to a URI of a scheme without a child failed with
\* InvalidResource and no child was called.
C38_WitnessUnregistered ==
    /\ resource_call # NoValue
    /\ resource_call.op = "subscribe_to_resource"
    /\ resource_call.uri = FileUri
    /\ DOMAIN registries = {<<"mem">>}
    /\ ~resource_result.ok
    /\ consulted = <<>>

\* C39: every operation of the resource-registry interface returns normally
\* on a multi-scheme registry, uri_scheme() included.
C39_EveryOperationReturns ==
    resource_call # NoValue => resource_result # Panicked

\* The positions of the add_resource calls made with the URI.
AdditionsUnder(uri) == {k \in 1..Len(additions) : additions[k].uri = uri}

\* The resource most recently added under the URI.
LatestAddition(uri) ==
    additions[CHOOSE k \in AdditionsUnder(uri) : \A j \in AdditionsUnder(uri) : j <= k]

\* C31: in a single-scheme in-memory registry, after any sequence of
\* add_resource calls, get_resource(u) succeeds exactly when resource_exists(u)
\* is true, which is when a resource was added under u; it returns the
\* resource most recently added under u, the registry holding one resource
\* per URI, and fails with ResourceNotFound carrying u otherwise.
C31_GetResourceIffExists ==
    /\ in_memory_call # NoValue =>
          LET uri == in_memory_call.uri IN
          /\ in_memory_resource_exists(in_memory, uri) = Ok(AdditionsUnder(uri) # {})
          /\ in_memory_get_resource(in_memory, uri).ok <=>
                in_memory_resource_exists(in_memory, uri).value
          /\ in_memory_call.op = "resource_exists" =>
                in_memory_result = Ok(AdditionsUnder(uri) # {})
          /\ in_memory_call.op = "get_resource" =>
                in_memory_result =
                    IF AdditionsUnder(uri) # {}
                    THEN Ok(LatestAddition(uri))
                    ELSE Err(ResourceNotFound(uri))
    /\ \A uri \in DOMAIN in_memory.resources : in_memory.resources[uri].uri = uri

\* C31 witness: two resources were added under one URI and another under a
\* second URI; get_resource of the first URI returned the later of the two.
C31_Witness ==
    /\ in_memory_call # NoValue
    /\ in_memory_call.op = "get_resource"
    /\ in_memory_call.uri = MemUri
    /\ additions = <<Resource(MemUri, "one"), Resource(MemUri, "two"), Resource(FileUri, "one")>>
    /\ in_memory_result = Ok(Resource(MemUri, "two"))

\* C31 witness: get_resource of a URI nothing was added under failed with
\* ResourceNotFound carrying that URI.
C31_WitnessNotFound ==
    /\ in_memory_call # NoValue
    /\ in_memory_call.op = "get_resource"
    /\ in_memory_call.uri = FileUri
    /\ additions = <<Resource(MemUri, "one")>>
    /\ in_memory_result = Err(ResourceNotFound(FileUri))

\* No task is between taking the write guard and returning.
NoUpdateInProgress ==
    \A t \in Tasks : tasks[t].pc \notin {"connection_opened", "connection_closed", "opening", "closing"}

\* The counter is what the completed calls make it, and an update in
\* progress is the only one, made under the write guard on the value it read.
CounterConsistent ==
    /\ active_connections >= 0
    /\ active_connections = opened - closed
    /\ started = 0 => active_connections = 0
    /\ \A t \in Tasks :
          /\ tasks[t].pc \in {"opening", "closing"} =>
                (connections_lock = <<t>> /\ tasks[t].loaded = active_connections)
          /\ tasks[t].reported # <<>> => tasks[t].reported[1] \in held
    /\ Cardinality({t \in Tasks : tasks[t].pc \in {"connection_opened", "connection_closed", "opening", "closing"}}) <= 1

\* A step leaves the counter alone, or is the return of an open adding
\* exactly 1, or the return of a close subtracting exactly 1 from a counter
\* above 0.
CounterStep ==
    \/ active_connections' = active_connections
    \/ /\ \E t \in Tasks : tasks[t].pc = "opening" /\ tasks'[t].pc = "idle"
       /\ active_connections' = active_connections + 1
    \/ /\ \E t \in Tasks : tasks[t].pc = "closing" /\ tasks'[t].pc = "idle"
       /\ active_connections > 0
       /\ active_connections' = active_connections - 1

\* A close returning while the counter is 0 leaves it 0.
CloseAtZeroStep ==
    (active_connections = 0 /\ \E t \in Tasks : tasks[t].pc = "closing" /\ tasks'[t].pc = "idle")
        => active_connections' = 0

\* C32: a new server has 0 active connections, and under every interleaving
\* of connection_opened, connection_closed and get_health calls of concurrent
\* tasks no update is lost: each open adds exactly 1, each close subtracts
\* exactly 1 unless the counter is 0 and then leaves it 0, the counter is
\* never below zero, and get_health reports a value the counter has held.
C32_NoLostConnectionUpdate ==
    /\ []CounterConsistent
    /\ [][CounterStep /\ CloseAtZeroStep]_vars

\* C32 witness: two tasks have opened a connection each and one close has
\* returned while the other task's get_health reported the value 2.
C32_Witness ==
    /\ NoUpdateInProgress
    /\ opened = 2
    /\ closed = 1
    /\ active_connections = 1
    /\ \E t \in Tasks : tasks[t].reported = <<2>>

\* C32 witness: a close that found the counter 0 left it 0.
C32_WitnessCloseAtZero ==
    /\ \A t \in Tasks : tasks[t].pc = "idle"
    /\ started = 1
    /\ opened = 0
    /\ closed = 0
    /\ active_connections = 0
    /\ held = {0}
    /\ connections_lock = <<>>
    /\ \A t \in Tasks : tasks[t].reported = <<>>

====
